---- MODULE Spec2Model ----
(***************************************************************************)
(* Hash-driven selection in the Repeater-Divination scripts.               *)
(*                                                                         *)
(* Every script turns a question (plus salts, a timestamp or OS entropy)   *)
(* into indices of a fixed table.  The digest of an input is not computed  *)
(* here: the hash is a fixed but unknown function, so the first time an    *)
(* input is hashed any digest may come out and every later hash of the     *)
(* same input returns the same digest (variable oracle).                   *)
(*                                                                         *)
(* The content tables are scaled down to MaxTable entries; the loops are   *)
(* the loops of the source.                                                *)
(***************************************************************************)
EXTENDS Integers, Sequences, FiniteSets, TLC

\* ------------------------------------------------------------------ bounds
MaxTable == 3      \* entries of a scaled deck, word list or path list
MaxSmall == 2      \* entries of a scaled sephirot or planet list (MKabbalah, IAstrology)
MaxTree == 4       \* entries of the scaled sephirot_names of KABBALAH5 and KABBALAH8
MaxClock == 1      \* seconds the wall clock may advance
MaxResalt == 2     \* characters a collision loop may append to its salt
MaxLine == 2       \* characters of a typed line
MaxChoices == 3    \* comma-separated entries of a typed line of hash prefixes
MaxPrompts == 3    \* lines the user types in one run

\* ------------------------------------------------------- scaled table sizes
DECK_SIZE == MaxTable
RUNE_COUNT == MaxTable
NUM_SEPHUROT == MaxSmall
NUM_PATHS == MaxTable
NUM_SENTENCES == MaxTable
NUM_PLANETS == MaxSmall
NUM_HOUSES == MaxSmall + 1
NUM_SIGNS == MaxSmall

\* digests, reduced to four that reach every index of the scaled tables and
\* every range of the state rolls (h % 3, h % 4, h % 1000 against 75 and 150)
Digest == {73, 74, 75, 152}

\* os.urandom(32), reduced
Entropy == {0, 1}

VARIABLES
    script,        \* the script (entry point) of this run
    pc,            \* position of the run
    question,      \* the question typed by the user
    count,         \* number of items asked for
    clock,         \* wall clock, in seconds
    timestamp,     \* int(time.time()) read by the running function
    oracle,        \* digests of the inputs hashed so far
    i,             \* loop variable of the draw
    salt,          \* salt of the current attempt
    used_indices,  \* indices (planets, for generate_chart) already taken
    used_houses,   \* houses already taken (generate_chart)
    drawn,         \* result list built so far
    placement,     \* planet and sign of the placement under construction
    hashed,        \* inputs hashed by the failed attempts of draw i
    heap,          \* the list objects: the module-level tables and the lists a call creates
    available,     \* the list object the local available_* names
    chosen,        \* the list object the local chosen_names / chosen_paths names
    seed,          \* seed bytes of the seeded scripts
    reversals_enabled,
    index,         \* the hash-derived index computed last
    modulus,       \* the modulus it was reduced by
    retry,         \* parity of the failed attempts of draw i (the passes of `while True`)
    rng,           \* state of the generator made by random.Random(seed)
    random_state,  \* state of the module-level generator of `random`
    interactive,   \* the dict a prepare_* function builds: <<key, value>> pairs, in insertion order
    run,           \* number of the call under way (1 or 2)
    previous,      \* what the previous call returned
    files,         \* the files written by --autosave: the lines of each path
    argv,          \* the command line: -p (given or not) and --autosave
    stdout,        \* what the script printed
    stdin,         \* the line typed last, the prompt it answered, the lines typed so far
    spread,        \* the spread (or word count) main settled on
    path_count,    \* the number of paths KABBALAH2 main settled on
    choices,       \* the hash prefixes typed, split at the commas
    api_key,       \* os.getenv("OPENROUTER_API_KEY"): "None" when the variable is unset
    posts,         \* HTTP requests sent
    interpretation \* what interpret_* returned

vars == <<script, pc, question, count, clock, timestamp, oracle, i, salt,
          used_indices, used_houses, drawn, placement, hashed,
          heap, available, chosen, seed, reversals_enabled, index, modulus,
          retry, rng, random_state, interactive, run, previous, files, argv,
          stdout, stdin, spread, path_count, choices, api_key, posts, interpretation>>

\* the generators, the dict, the terminal and the network
world == <<rng, random_state, interactive, run, previous, files, stdout, stdin, spread, path_count, choices, api_key, posts,
           interpretation>>

\* the inputs of a run
inputs == <<script, question, count, clock, reversals_enabled, argv>>

\* what a draw function reads and never writes
env == <<inputs, retry, world>>

\* the list objects and the seed, which the salted draw loops never touch
lists == <<heap, available, chosen, seed>>

NoSalt == [tag |-> "", i |-> 0, ts |-> -1, ext |-> <<>>, name |-> 0, names |-> <<>>]

\* a salt that leaves the time out: f"{question}-shuffle{i}"
MakeSaltUntimed(tag, k, ts) == [NoSalt EXCEPT !.tag = tag, !.i = k]

\* f"{question}-{tag}{i}-time{timestamp}", plus what collisions appended
MakeSalt(tag, k, ts) == [NoSalt EXCEPT !.tag = tag, !.i = k, !.ts = ts]

\* salt += c
Resalt(s, c) == [s EXCEPT !.ext = Append(@, c)]

\* the bytes a seeded script hashes with its salts: the question, with the
\* time or the entropy of the run where the script mixes them in (-1: not mixed in)
NoSeed == [q |-> "", ts |-> -1, urandom |-> -1]
Seed(q, ts, e) == [q |-> q, ts |-> ts, urandom |-> e]

\* (question + salt).encode(), salt being the loop's salt plus a suffix
HashInput(q, s, sfx) == [q |-> Seed(q, -1, -1), salt |-> s, sfx |-> sfx]

\* seed + salt, for the scripts that hash a seed
SeedInput(sd, s) == [q |-> sd, salt |-> s, sfx |-> ""]

\* the digests hash_question may return for an input
hash_question(inp) == IF inp \in DOMAIN oracle THEN {oracle[inp]} ELSE Digest

\* the oracle after the input was hashed to v
Memo(inp, v) == IF inp \in DOMAIN oracle THEN oracle ELSE (inp :> v) @@ oracle

\* the inputs hashed by the failed attempts of draw i
Attempt(inp) == hashed \cup {inp}

NoResaltScripts == {"NETarot", "Lenormand", "Runes", "chinv3", "ponav2", "MKabbalahv2"}
ResaltScripts == {"cio", "MKabbalahv7", "MKabbalahv6a"}
SaltedScripts == NoResaltScripts \cup ResaltScripts \cup {"IAstrology"}

SaltTag(s) ==
    CASE s \in {"NETarot", "Lenormand"} -> "card"
      [] s = "Runes" -> "rune"
      [] s \in {"chinv3", "ponav2"} -> "word"
      [] s \in {"MKabbalahv2", "MKabbalahv7"} -> "sephirah"
      [] s = "cio" -> "sentence"
      [] s = "MKabbalahv6a" -> "path"
      [] s = "IAstrology" -> "placement"

TableSize(s) ==
    CASE s \in {"NETarot", "Lenormand", "chinv3", "ponav2"} -> DECK_SIZE
      [] s = "Runes" -> RUNE_COUNT
      [] s \in {"MKabbalahv2", "MKabbalahv7"} -> NUM_SEPHUROT
      [] s = "cio" -> NUM_SENTENCES
      [] s = "MKabbalahv6a" -> NUM_PATHS
      [] s = "IAstrology" -> NUM_PLANETS

PopScripts == {"TAROT2", "KABBALAH5.get_sephirot_reading", "KABBALAH5.get_paths_reading",
               "KABBALAH8.get_sephirot_reading", "KABBALAH8.get_paths_reading"}
SephirotReadings == {"KABBALAH5.get_sephirot_reading", "KABBALAH8.get_sephirot_reading"}
PathsReadings == {"KABBALAH5.get_paths_reading", "KABBALAH8.get_paths_reading"}

Scripts == SaltedScripts \cup PopScripts \cup {"Tableau", "DIVINATION", "EngWheel"}

\* the module-level list a script draws from
Table(s) ==
    CASE s \in {"NETarot", "Lenormand", "Tableau"} -> "cards"
      [] s = "Runes" -> "runes"
      [] s \in {"chinv3", "ponav2"} -> "words"
      [] s \in {"MKabbalahv2", "MKabbalahv7"} -> "sephirot"
      [] s = "cio" -> "sentences"
      [] s = "MKabbalahv6a" -> "paths6a"
      [] s = "IAstrology" -> "PLANETS"
      [] s = "TAROT2" -> "deck_cards"
      [] s \in SephirotReadings -> "sephirot_names"
      [] s \in PathsReadings -> "paths"
      [] s = "DIVINATION" -> "TAROT_CARDS"
      [] s = "EngWheel" -> "WORD_LIST"

\* a list of n distinct items
Range(n) == [k \in 1 .. n |-> k]

\* the list objects after the modules were loaded
InitHeap ==
    [cards |-> Range(DECK_SIZE), runes |-> Range(RUNE_COUNT), words |-> Range(DECK_SIZE),
     sephirot |-> Range(NUM_SEPHUROT), sentences |-> Range(NUM_SENTENCES),
     paths6a |-> Range(NUM_PATHS), PLANETS |-> Range(NUM_PLANETS),
     SIGNS |-> Range(NUM_SIGNS), HOUSES |-> Range(NUM_HOUSES),
     deck_cards |-> Range(DECK_SIZE), sephirot_names |-> Range(MaxTree),
     paths |-> Range(NUM_PATHS), TAROT_CARDS |-> Range(DECK_SIZE),
     WORD_LIST |-> Range(DECK_SIZE), sephirot_with_states |-> Range(NUM_SEPHUROT),
     multiv3_cards |-> Range(NUM_SEPHUROT),
     copy |-> <<>>, chosen |-> <<>>, indices |-> <<>>, available_hashes |-> <<>>,
     tarot_map |-> <<>>, iching_map |-> <<>>, kabbalah_map |-> <<>>, runes_map |-> <<>>]

\* the module-level content tables among the list objects
Tables == {"cards", "runes", "words", "sephirot", "sentences", "paths6a", "PLANETS",
           "SIGNS", "HOUSES", "deck_cards", "sephirot_names", "paths", "TAROT_CARDS",
           "WORD_LIST", "sephirot_with_states", "multiv3_cards"}

\* the counts a caller may pass
Counts(s) ==
    CASE s \in SephirotReadings -> {1, 3, MaxTree}
      [] s \in PathsReadings -> 0 .. NUM_PATHS
      [] s = "TAROT2" -> 1 .. DECK_SIZE
      [] s \in {"Tableau", "DIVINATION"} -> {DECK_SIZE}
      [] s = "EngWheel" -> {1, 3, DECK_SIZE}
      [] OTHER -> 1 .. TableSize(s)

\* tbl[index]
Item(tbl, idx) == heap[tbl][idx + 1]

\* the item is read and left in the list
PopKept(lst, idx) == lst

\* lst.pop(index)
Pop(lst, idx) == [k \in 1 .. Len(lst) - 1 |-> IF k <= idx THEN lst[k] ELSE lst[k + 1]]

\* lst[a] = lst[b]; lst[b] = lst[a]: the second assignment reads the new lst[a]
SwapLost(lst, a, b) == [lst EXCEPT ![a + 1] = lst[b + 1]]

\* lst[a], lst[b] = lst[b], lst[a]   (0-based)
Swap(lst, a, b) == [lst EXCEPT ![a + 1] = lst[b + 1], ![b + 1] = lst[a + 1]]

\* `local = tbl`: the local names the table itself
ListAlias(tbl) == tbl

\* the object a local names after `local = tbl.copy()` / `list(tbl)`
ListCopy(tbl) == "copy"

\* Python values that reach the terminal: a str, or None
Str(x) == [type |-> "str", value |-> x]
None == [type |-> "NoneType", value |-> ""]

\* no line typed yet
NoLine == [prompt |-> "", line |-> <<>>, n |-> 0]

\* the paths --autosave may name, and a file system without any of them
Paths == {<<"o", ".", "j", "s", "o", "n", "l">>, <<"O", ".", "J", "S", "O", "N", "L">>,
          <<"o", ".", "j", "s", "o", "n">>}
NoFiles == [p \in Paths |-> <<>>]

\* a command line without -p and without --autosave (argparse leaves both None)
NoArgs == [paths_given |-> FALSE, paths |-> 0, autosave |-> <<>>]

\* the state of a process that loaded one of the scripts S and was given its inputs
InitFor(S) ==
    /\ script \in S
    /\ question = "q1"
    /\ reversals_enabled \in (IF script \in {"TAROT2", "multiv3"} THEN BOOLEAN ELSE {FALSE})
    /\ heap = InitHeap
    /\ available \in (IF script = "KABBALAH2" THEN {"sephirot_with_states", "paths"}
                                             ELSE {"none"})
    /\ chosen = "none"
    /\ seed = NoSeed
    /\ index = 0
    /\ modulus = 1
    /\ clock = 0
    /\ timestamp = 0
    /\ oracle = <<>>
    /\ i = 0
    /\ salt = NoSalt
    /\ used_indices = {}
    /\ used_houses = {}
    /\ drawn = <<>>
    /\ placement = <<>>
    /\ hashed = {}
    /\ retry = FALSE
    /\ rng = 0
    /\ random_state \in (IF script \in {"EngWheel", "Geomancy"} THEN Entropy ELSE {0})
    /\ interactive = <<>>
    /\ run = 1
    /\ previous = <<>>
    /\ files = NoFiles
    /\ argv = NoArgs
    /\ stdout = <<>>
    /\ stdin = NoLine
    /\ spread = 0
    /\ path_count = 0
    /\ choices = <<>>
    /\ posts = 0
    /\ interpretation = None

Init == InitFor(Scripts) /\ count \in Counts(script) /\ pc = "idle" /\ api_key = "None"

\* entry of a draw function: empty result, empty used set, time read once
Enter ==
    /\ pc = "idle"
    /\ script \in SaltedScripts
    /\ timestamp' = clock
    /\ i' = 0
    /\ salt' = MakeSalt(SaltTag(script), 0, clock)
    /\ used_indices' = {}
    /\ used_houses' = {}
    /\ drawn' = <<>>
    /\ hashed' = {}
    /\ pc' = IF script = "IAstrology" THEN "planet" ELSE "loop"
    /\ UNCHANGED <<env, lists, oracle, placement, index, modulus>>

\* the membership test left out
NeverUsed(idx, used) == TRUE

\* `if index not in used_indices`
Unused(idx, used) == idx \notin used

\* states[state_index] of MKabbalahv2
StateV2(h) == <<"Normal", "Excessive", "Deficient">>[(h % 3) + 1]

\* the 50/25/25 state of MKabbalahv7 and MKabbalahv6a
StateV7(h) == IF h % 4 < 2 THEN "Normal" ELSE IF h % 4 = 2 THEN "Excessive" ELSE "Deficient"

\* the frame of the draw loops that end with `salt += "."`
LoopFrame == UNCHANGED <<env, lists, pc, timestamp, used_houses, placement>>

\* the frame of the draw loops that keep their salt
RetryFrame == UNCHANGED <<inputs, world, lists, pc, timestamp, used_houses, placement>>

\* the for loop moves on to draw i + 1 with a fresh salt
NextDraw(idx, entry) ==
    /\ used_indices' = used_indices \cup {idx}
    /\ drawn' = Append(drawn, entry)
    /\ i' = i + 1
    /\ salt' = MakeSalt(SaltTag(script), i + 1, timestamp)
    /\ hashed' = {}

\* one pass of `while True` in the draw loops that keep their salt
NoResaltLoop(N) ==
    /\ pc = "loop"
    /\ i < count
    /\ LET inp == HashInput(question, salt, "") IN
       \E h \in hash_question(inp) :
         LET idx == h % N IN
         /\ oracle' = Memo(inp, h)
         /\ index' = idx
         /\ modulus' = N
         /\ IF Unused(idx, used_indices)
            THEN /\ NextDraw(idx, Item(Table(script), idx))
                 /\ retry' = FALSE
            ELSE /\ hashed' = Attempt(inp)
                 /\ retry' = ~retry
                 /\ UNCHANGED <<used_indices, drawn, i, salt>>
    /\ RetryFrame

\* one pass of `while True` in the draw loops that end with `salt += "."`
ResaltLoop(N) ==
    /\ pc = "loop"
    /\ i < count
    /\ LET inp == HashInput(question, salt, "") IN
       \E h \in hash_question(inp) :
         LET idx == h % N IN
         /\ oracle' = Memo(inp, h)
         /\ index' = idx
         /\ modulus' = N
         /\ IF Unused(idx, used_indices)
            THEN NextDraw(idx, Item(Table(script), idx))
            ELSE /\ Len(salt.ext) < MaxResalt
                 /\ salt' = Resalt(salt, ".")
                 /\ hashed' = Attempt(inp)
                 /\ UNCHANGED <<used_indices, drawn, i>>
    /\ LoopFrame

draw_cards == script \in {"NETarot", "Lenormand"} /\ NoResaltLoop(DECK_SIZE)

draw_runes == script = "Runes" /\ NoResaltLoop(RUNE_COUNT)

draw_words == script \in {"chinv3", "ponav2"} /\ NoResaltLoop(DECK_SIZE)

\* MKabbalahv2: the salt is kept, and a state is hashed for the sephirah found
reveal_sephirot_v2 ==
    /\ script = "MKabbalahv2"
    /\ pc = "loop"
    /\ i < count
    /\ LET inp == HashInput(question, salt, "")
           sinp == HashInput(question, MakeSalt("state", i, timestamp), "") IN
       \E h \in hash_question(inp) :
         LET idx == h % NUM_SEPHUROT IN
         /\ index' = idx
         /\ modulus' = NUM_SEPHUROT
         /\ IF Unused(idx, used_indices)
            THEN \E sh \in hash_question(sinp) :
                   /\ oracle' = (inp :> h) @@ (sinp :> sh) @@ oracle
                   /\ NextDraw(idx, <<Item("sephirot", idx), StateV2(sh)>>)
                   /\ retry' = FALSE
            ELSE /\ oracle' = Memo(inp, h)
                 /\ hashed' = Attempt(inp)
                 /\ retry' = ~retry
                 /\ UNCHANGED <<used_indices, drawn, i, salt>>
    /\ RetryFrame

reveal_sentences == script = "cio" /\ ResaltLoop(NUM_SENTENCES)

\* MKabbalahv7: `sephirah_salt += "."` after a collision
reveal_sephirot ==
    /\ script = "MKabbalahv7"
    /\ pc = "loop"
    /\ i < count
    /\ LET inp == HashInput(question, salt, "")
           sinp == HashInput(question, MakeSalt("state", i, timestamp), "") IN
       \E h \in hash_question(inp) :
         LET idx == h % NUM_SEPHUROT IN
         /\ index' = idx
         /\ modulus' = NUM_SEPHUROT
         /\ IF Unused(idx, used_indices)
            THEN \E sh \in hash_question(sinp) :
                   /\ oracle' = (inp :> h) @@ (sinp :> sh) @@ oracle
                   /\ NextDraw(idx, <<Item("sephirot", idx), StateV7(sh)>>)
            ELSE /\ Len(salt.ext) < MaxResalt
                 /\ oracle' = Memo(inp, h)
                 /\ salt' = Resalt(salt, ".")
                 /\ hashed' = Attempt(inp)
                 /\ UNCHANGED <<used_indices, drawn, i>>
    /\ LoopFrame

reveal_paths == script = "MKabbalahv6a" /\ ResaltLoop(NUM_PATHS)

\* IAstrology generate_chart, `# Select Planet`: one pass of the loop
generate_chart_planet ==
    /\ script = "IAstrology"
    /\ pc = "planet"
    /\ i < count
    /\ LET inp == HashInput(question, salt, "planet") IN
       \E h \in (IF count >= NUM_PLANETS THEN {i} ELSE hash_question(inp)) :
         LET planet == IF count >= NUM_PLANETS THEN Item("PLANETS", i)
                                               ELSE Item("PLANETS", h % NUM_PLANETS) IN
         /\ oracle' = IF count >= NUM_PLANETS THEN oracle ELSE Memo(inp, h)
         /\ index' = IF count >= NUM_PLANETS THEN index ELSE h % NUM_PLANETS
         /\ modulus' = IF count >= NUM_PLANETS THEN modulus ELSE NUM_PLANETS
         /\ IF Unused(planet, used_indices)
            THEN /\ used_indices' = used_indices \cup {planet}
                 /\ placement' = <<planet>>
                 /\ pc' = "sign"
                 /\ hashed' = {}
                 /\ UNCHANGED salt
            ELSE /\ Len(salt.ext) < MaxResalt
                 /\ salt' = Resalt(salt, "p")
                 /\ hashed' = Attempt(inp)
                 /\ UNCHANGED <<used_indices, placement, pc>>
    /\ UNCHANGED <<env, lists, timestamp, i, used_houses, drawn>>

\* `# Select Sign`: duplicates are allowed, the loop runs once
generate_chart_sign ==
    /\ script = "IAstrology"
    /\ pc = "sign"
    /\ LET inp == HashInput(question, salt, "sign") IN
       \E h \in hash_question(inp) :
         /\ oracle' = Memo(inp, h)
         /\ index' = h % NUM_SIGNS
         /\ modulus' = NUM_SIGNS
         /\ placement' = Append(placement, Item("SIGNS", h % NUM_SIGNS))
    /\ pc' = "house"
    /\ UNCHANGED <<env, lists, timestamp, i, salt,
                   used_indices, used_houses, drawn, hashed>>

\* `# Select House`: one pass of the loop, then chart.append
generate_chart_house ==
    /\ script = "IAstrology"
    /\ pc = "house"
    /\ LET inp == HashInput(question, salt, "house") IN
       \E h \in hash_question(inp) :
         LET house == Item("HOUSES", h % NUM_HOUSES) IN
         /\ oracle' = Memo(inp, h)
         /\ index' = h % NUM_HOUSES
         /\ modulus' = NUM_HOUSES
         /\ IF Unused(house, used_houses)
            THEN /\ used_houses' = used_houses \cup {house}
                 /\ drawn' = Append(drawn, Append(placement, house))
                 /\ placement' = <<>>
                 /\ i' = i + 1
                 /\ salt' = MakeSalt(SaltTag(script), i + 1, timestamp)
                 /\ pc' = "planet"
                 /\ hashed' = {}
            ELSE /\ Len(salt.ext) < MaxResalt
                 /\ salt' = Resalt(salt, "h")
                 /\ hashed' = Attempt(inp)
                 /\ UNCHANGED <<used_houses, drawn, placement, i, pc>>
    /\ UNCHANGED <<env, lists, timestamp, used_indices>>

\* `return drawn` once the for loop is exhausted
Return ==
    /\ script \in SaltedScripts
    /\ pc \in {"loop", "planet"}
    /\ i = count
    /\ pc' = "done"
    /\ UNCHANGED <<env, lists, timestamp, oracle, i, salt, index, modulus,
                   used_indices, used_houses, drawn, placement, hashed>>

\* ---------------------------------------------- draws that pop from a copy
\* a salt without a timestamp: f"card-draw-{i}", f"path-{i}", ...
PlainSalt(tag, k) == [NoSalt EXCEPT !.tag = tag, !.i = k]

\* a salt that names an item: f"sephirah-state-{name}-{i}", f"potential-{name}"
NameSalt(tag, name, k) == [NoSalt EXCEPT !.tag = tag, !.name = name, !.i = k]

\* what the seeded draws leave alone
popFrame == UNCHANGED <<env, timestamp, salt, used_indices, used_houses, placement,
                        hashed, seed>>

\* `available = tbl.copy()`: a new list object with the elements of tbl
CopyInto(tbl) == [heap EXCEPT ![ListCopy(tbl)] = heap[tbl], !["chosen"] = <<>>]

\* TAROT2 main and TarotReader.__init__, then the first lines of draw_cards
EnterTarot ==
    /\ pc = "idle"
    /\ script = "TAROT2"
    /\ timestamp' = clock
    /\ seed' = Seed(question, clock, -1)
    /\ available' = ListCopy("deck_cards")
    /\ heap' = CopyInto("deck_cards")
    /\ drawn' = <<>>
    /\ i' = 0
    /\ pc' = "pop"
    /\ UNCHANGED <<env, oracle, salt, used_indices, used_houses, placement, hashed,
                   chosen, index, modulus>>

\* one pass of the for loop of TarotReader.draw_cards
TarotReader_draw_cards ==
    /\ pc = "pop"
    /\ script = "TAROT2"
    /\ i < count
    /\ LET lst == heap[available]
           inp == SeedInput(seed, PlainSalt("card-draw", i))
           rinp == SeedInput(seed, PlainSalt("reversal", i)) IN
       IF lst = <<>>
       THEN /\ pc' = "done"
            /\ UNCHANGED <<oracle, heap, drawn, i, index, modulus>>
       ELSE \E h \in hash_question(inp) :
            \E rh \in (IF reversals_enabled THEN hash_question(rinp) ELSE {0}) :
              LET card_index == h % Len(lst) IN
              /\ oracle' = IF reversals_enabled
                           THEN (inp :> h) @@ (rinp :> rh) @@ oracle
                           ELSE Memo(inp, h)
              /\ index' = card_index
              /\ modulus' = Len(lst)
              /\ heap' = [heap EXCEPT ![available] = Pop(lst, card_index)]
              /\ drawn' = Append(drawn, <<lst[card_index + 1], rh % 2 = 1>>)
              /\ i' = i + 1
              /\ pc' = IF i + 1 = count THEN "done" ELSE "pop"
    /\ UNCHANGED <<available, chosen>>
    /\ popFrame

\* the seed of KABBALAH5 main (question and time) and of KABBALAH8 main (urandom)
MainSeed(s, e) ==
    IF s \in {"KABBALAH5.get_sephirot_reading", "KABBALAH5.get_paths_reading"}
    THEN Seed(question, clock, -1)
    ELSE Seed(question, -1, e)

\* "Da'at (Knowledge)", which is not one of sephirot_names (1 .. MaxTree)
Daat == 0

\* daat_state of KABBALAH8, a function of the hashes of (seed, question)
DaatState(h) == IF h = 73 THEN "Excessive" ELSE IF h = 74 THEN "Deficient" ELSE "None"

\* the state KABBALAH8 derives from the pressure (flow) of a name
FlowState(h) == IF h = 73 THEN "Excessive" ELSE IF h = 74 THEN "Deficient" ELSE "Normal"

\* the state KABBALAH5 rolls for a name
RollState(h) ==
    IF h % 1000 < 75 THEN "Deficient" ELSE IF h % 1000 < 150 THEN "Excessive" ELSE "Normal"

\* get_sephirot_reading up to the selection loop
EnterSephirot ==
    /\ pc = "idle"
    /\ script \in SephirotReadings
    /\ timestamp' = clock
    /\ \E e \in Entropy :
         LET sd == MainSeed(script, e)
             dinp == SeedInput(sd, PlainSalt("daat", 0)) IN
         /\ seed' = sd
         /\ IF script = "KABBALAH8.get_sephirot_reading"
            THEN \E h \in hash_question(dinp) :
                   /\ oracle' = Memo(dinp, h)
                   /\ drawn' = IF DaatState(h) = "None" THEN <<>>
                               ELSE << <<Daat, DaatState(h)>> >>
            ELSE /\ oracle' = oracle
                 /\ drawn' = <<>>
    /\ i' = 0
    /\ IF count >= MaxTree
       THEN /\ chosen' = "sephirot_names"
            /\ pc' = "state"
            /\ UNCHANGED <<heap, available>>
       ELSE /\ available' = ListCopy("sephirot_names")
            /\ heap' = CopyInto("sephirot_names")
            /\ chosen' = "chosen"
            /\ pc' = IF count = 0 THEN "state" ELSE "pop"
    /\ UNCHANGED <<env, salt, used_indices, used_houses, placement, hashed, index, modulus>>

\* chosen.append(available.pop(index)), or the error Python raises instead
PopInto(tag, after) ==
    LET lst == heap[available]
        inp == SeedInput(seed, PlainSalt(tag, i)) IN
    \E h \in hash_question(inp) :
      /\ oracle' = Memo(inp, h)
      /\ IF lst = <<>>
         THEN /\ pc' = "ZeroDivisionError"
              /\ UNCHANGED <<heap, i, index, modulus>>
         ELSE /\ index' = h % Len(lst)
              /\ modulus' = Len(lst)
              /\ heap' = [heap EXCEPT ![available] = Pop(lst, h % Len(lst)),
                                      ![chosen] = Append(@, lst[(h % Len(lst)) + 1])]
              /\ i' = IF i + 1 = count THEN 0 ELSE i + 1
              /\ pc' = IF i + 1 = count THEN after ELSE "pop"

\* one pass of the selection loop of get_sephirot_reading
get_sephirot_reading ==
    /\ pc = "pop"
    /\ script \in SephirotReadings
    /\ i < count
    /\ PopInto("sephirah-name", "state")
    /\ UNCHANGED <<available, chosen, drawn>>
    /\ popFrame

\* one pass of the loop that gives each chosen name its state
get_sephirot_reading_state ==
    /\ pc = "state"
    /\ script \in SephirotReadings
    /\ IF i < Len(heap[chosen])
       THEN LET name == heap[chosen][i + 1]
                inp == IF script = "KABBALAH5.get_sephirot_reading"
                       THEN SeedInput(seed, NameSalt("sephirah-state", name, i))
                       ELSE SeedInput(seed, NameSalt("pressure", name, 0)) IN
            \E h \in hash_question(inp) :
              /\ oracle' = Memo(inp, h)
              /\ drawn' = Append(drawn, <<name, IF script = "KABBALAH5.get_sephirot_reading"
                                                THEN RollState(h) ELSE FlowState(h)>>)
              /\ i' = i + 1
              /\ pc' = pc
       ELSE /\ pc' = "done"
            /\ UNCHANGED <<oracle, drawn, i>>
    /\ UNCHANGED <<heap, available, chosen, index, modulus>>
    /\ popFrame

\* get_paths_reading up to the selection loop
EnterPaths ==
    /\ pc = "idle"
    /\ script \in PathsReadings
    /\ timestamp' = clock
    /\ \E e \in Entropy : seed' = IF seed = NoSeed THEN MainSeed(script, e) ELSE seed
    /\ drawn' = <<>>
    /\ i' = 0
    /\ IF count = 0
       THEN /\ pc' = "done"
            /\ UNCHANGED <<heap, available, chosen>>
       ELSE /\ available' = ListCopy("paths")
            /\ heap' = CopyInto("paths")
            /\ chosen' = "chosen"
            /\ pc' = "pop"
    /\ UNCHANGED <<env, oracle, salt, used_indices, used_houses, placement, hashed,
                   index, modulus>>

\* one pass of the selection loop of get_paths_reading
get_paths_reading ==
    /\ pc = "pop"
    /\ script \in PathsReadings
    /\ i < count
    /\ PopInto("path", "flow")
    /\ UNCHANGED <<available, chosen, drawn>>
    /\ popFrame

\* KABBALAH5 returns chosen_paths; KABBALAH8 gives each chosen path a flow state
get_paths_reading_flow ==
    /\ pc = "flow"
    /\ script \in PathsReadings
    /\ IF script = "KABBALAH5.get_paths_reading"
       THEN /\ drawn' = heap[chosen]
            /\ pc' = "done"
            /\ UNCHANGED <<oracle, i>>
       ELSE IF i < Len(heap[chosen])
            THEN LET name == heap[chosen][i + 1]
                     inp == SeedInput(seed, [NameSalt("flow", name, 0) EXCEPT
                                                   !.names = heap[chosen]]) IN
                 \E h \in hash_question(inp) :
                   /\ oracle' = Memo(inp, h)
                   /\ drawn' = Append(drawn, <<name, FlowState(h)>>)
                   /\ i' = i + 1
                   /\ pc' = pc
            ELSE /\ pc' = "done"
                 /\ UNCHANGED <<oracle, drawn, i>>
    /\ UNCHANGED <<heap, available, chosen, index, modulus>>
    /\ popFrame

\* ------------------------------------------------ Tableau: Fisher-Yates
\* the whole deck as the bound of every pass
DeckBound(k) == DECK_SIZE

\* the bound of pass i: `% (i + 1)`
ShuffleBound(k) == k + 1

\* shuffle_deck up to its for loop: shuffled_deck = list(cards)
EnterShuffle ==
    /\ pc = "idle"
    /\ script = "Tableau"
    /\ timestamp' = clock
    /\ available' = ListCopy("cards")
    /\ heap' = CopyInto("cards")
    /\ i' = DECK_SIZE - 1
    /\ drawn' = <<>>
    /\ pc' = "shuffle"
    /\ UNCHANGED <<env, oracle, salt, used_indices, used_houses, placement, hashed,
                   chosen, seed, index, modulus>>

\* one pass of `for i in range(DECK_SIZE - 1, 0, -1)`, or the return
shuffle_deck ==
    /\ pc = "shuffle"
    /\ script = "Tableau"
    /\ IF i >= 1
       THEN LET inp == HashInput(question, MakeSalt("shuffle", i, timestamp), "") IN
            \E h \in hash_question(inp) :
              /\ oracle' = Memo(inp, h)
              /\ index' = h % ShuffleBound(i)
              /\ modulus' = ShuffleBound(i)
              /\ heap' = [heap EXCEPT ![available] = Swap(@, i, h % ShuffleBound(i))]
              /\ i' = i - 1
              /\ UNCHANGED <<pc, drawn>>
       ELSE /\ drawn' = heap[available]
            /\ pc' = "done"
            /\ UNCHANGED <<oracle, heap, i, index, modulus>>
    /\ UNCHANGED <<available, chosen>>
    /\ popFrame


\* ------------------------------------------------ the generators of `random`
\* random.Random(seed), random.seed(seed): the state is a function of the seed
Seeded(h) == h % 16

\* one step of the generator (a linear congruential stand-in for the twister)
Advance(s) == (5 * s + 3) % 16

\* _randbelow(n) of a generator in state s, which advances to Advance(s)
randbelow(s, n) == ((Advance(s) \div 4) + Advance(s)) % n

\* random.shuffle(x): for k in reversed(range(1, len(x))): j = randbelow(k + 1); swap
RECURSIVE shuffle(_, _, _)
shuffle(x, s, k) ==
    IF k < 1 THEN [list |-> x, state |-> s]
    ELSE shuffle(Swap(x, k, randbelow(s, k + 1)), Advance(s), k - 1)

\* list(range(n))
IndexList(n) == [k \in 1 .. n |-> k - 1]

\* hash_hex: the digits of a digest
hex(d) == IF d < 10 THEN <<d>>
          ELSE IF d < 100 THEN <<d \div 10, d % 10>>
          ELSE <<d \div 100, (d \div 10) % 10, d % 10>>

\* hash_hex[:8], scaled to the first two digits
Key(d) == SubSeq(hex(d), 1, 2)

\* the keys of a dict, in insertion order
Keys(dict) == [k \in 1 .. Len(dict) |-> dict[k][1]]

\* dict[key] = value: a new key is appended, a known key keeps its place
DictSet(dict, key, value) ==
    IF \E k \in 1 .. Len(dict) : dict[k][1] = key
    THEN [k \in 1 .. Len(dict) |-> IF dict[k][1] = key THEN <<key, value>> ELSE dict[k]]
    ELSE Append(dict, <<key, value>>)

\* dict[key], for a key of the dict
DictGet(dict, key) == dict[CHOOSE k \in 1 .. Len(dict) : dict[k][1] = key][2]

\* lst.remove(x), for an x of the list
Remove(lst, x) == Pop(lst, (CHOOSE k \in 1 .. Len(lst) : lst[k] = x) - 1)

\* ------------------------------------------------ DIVINATION: the four maps
\* scaled sizes of the hexagram, path and rune ranges
NUM_HEXAGRAMS == MaxTable + 1
NUM_RUNES == MaxSmall

\* [f"{c} ({ori})" for c in TAROT_CARDS for ori in ["Upright", "Reversed"]]
tarot_master ==
    [k \in 1 .. 2 * Len(heap["TAROT_CARDS"]) |->
       <<heap["TAROT_CARDS"][(k + 1) \div 2], IF k % 2 = 1 THEN "Upright" ELSE "Reversed">>]

\* DivinationMapper.__init__: the seed of the clock and the question, then four shuffles
DivinationMapper ==
    /\ pc = "idle"
    /\ script = "DIVINATION"
    /\ timestamp' = clock
    /\ seed' = Seed(question, clock, -1)
    /\ \E h \in hash_question(SeedInput(Seed(question, clock, -1), NoSalt)) :
         LET tarot == shuffle(tarot_master, Seeded(h), 2 * Len(heap["TAROT_CARDS"]) - 1)
             ich == shuffle(Range(NUM_HEXAGRAMS), tarot.state, NUM_HEXAGRAMS - 1)
             kab == shuffle(Range(NUM_PATHS), ich.state, NUM_PATHS - 1)
             runes == shuffle(Range(NUM_RUNES), kab.state, NUM_RUNES - 1) IN
         /\ oracle' = Memo(SeedInput(Seed(question, clock, -1), NoSalt), h)
         /\ rng' = runes.state
         /\ heap' = [heap EXCEPT !["tarot_map"] = tarot.list, !["iching_map"] = ich.list,
                                 !["kabbalah_map"] = kab.list, !["runes_map"] = runes.list]
    /\ pc' = "done"
    /\ UNCHANGED <<inputs, retry, random_state, interactive, run, previous, files, stdout, stdin, spread, path_count, choices, api_key,
                   posts, interpretation, i, salt, used_indices, used_houses, drawn,
                   placement, hashed, available, chosen, index, modulus>>

\* system_map[number - 1]
map_number(number, system_map) == heap[system_map][number]

\* ------------------------------------------- dicts keyed by hash prefixes
\* a seed of the query and the time of the call
create_seed_timed(query) == Seed(query, clock, -1)

\* create_seed: sha256 of the query and nothing else
create_seed(query) == Seed(query, -1, -1)

\* salt_prefix of the dict a script prepares
SaltPrefix(s) ==
    CASE s = "EngWheel" -> "word"
      [] s \in {"multiv3", "multi"} -> "card"
      [] s = "KABBALAH2" -> IF available = "paths" THEN "path" ELSE "sephirah"

\* the list a script prepares its dict from
Items(s) ==
    CASE s = "EngWheel" -> Table(s)
      [] s \in {"multiv3", "multi"} -> "multiv3_cards"
      [] s = "KABBALAH2" -> available

\* create_seed and the first lines of prepare_interactive_*: the generator is
\* seeded with sha256(query), the index list is shuffled
prepare_interactive(s) ==
    LET base_seed == create_seed(question)
        inp == SeedInput(base_seed, NoSalt)
        card_indices == IndexList(Len(heap[Items(s)]))
        pool == IF reversals_enabled THEN card_indices \o card_indices ELSE card_indices IN
    \E h \in hash_question(inp) :
      LET sh == shuffle(pool, Seeded(h), Len(pool) - 1) IN
      /\ oracle' = Memo(inp, h)
      /\ seed' = base_seed
      /\ rng' = sh.state
      /\ heap' = [heap EXCEPT !["indices"] = sh.list, !["available_hashes"] = <<>>]
      /\ interactive' = <<>>
      /\ i' = 0

\* one pass of `for i, index in enumerate(indices)`: a digest, a dict entry
prepare_interactive_entry(s) ==
    LET inp == SeedInput(seed, PlainSalt(SaltPrefix(s), i)) IN
    \E d \in hash_question(inp) :
      /\ oracle' = Memo(inp, d)
      /\ interactive' = DictSet(interactive, Key(d),
                                [item |-> heap[Items(s)][heap["indices"][i + 1] + 1],
                                 is_reversed |-> (d % 2 = 1) /\ (reversals_enabled \/ s = "multi"),
                                 hash_digest |-> IF s = "KABBALAH2" THEN <<>> ELSE hex(d)])
      /\ i' = i + 1

\* ------------------------------------------------ EngWheel: the word wheel
\* WordDiviner.__init__ (self.words = WORD_LIST) and prepare_interactive_words
EnterWheel ==
    /\ pc = "idle"
    /\ script = "EngWheel"
    /\ prepare_interactive("EngWheel")
    /\ drawn' = <<>>
    /\ pc' = "prepare"
    /\ UNCHANGED <<inputs, retry, random_state, run, previous, files, stdout, stdin, spread, path_count, choices, api_key, posts,
                   interpretation, timestamp, salt, used_indices, used_houses,
                   placement, hashed, available, chosen, index, modulus>>

\* the loop of prepare_interactive_words; after it run_interactive lists the
\* keys and shuffles them with the module-level generator
prepare_interactive_words ==
    /\ pc = "prepare"
    /\ script = "EngWheel"
    /\ IF i < Len(heap["indices"])
       THEN /\ prepare_interactive_entry("EngWheel")
            /\ UNCHANGED <<heap, random_state, pc>>
       ELSE LET sh == shuffle(Keys(interactive), random_state, Len(interactive) - 1) IN
            /\ heap' = [heap EXCEPT !["available_hashes"] = sh.list]
            /\ random_state' = sh.state
            /\ i' = 0
            /\ pc' = "wheel"
            /\ UNCHANGED <<oracle, interactive>>
    /\ UNCHANGED <<inputs, retry, rng, run, previous, files, stdout, stdin, spread, path_count, choices, api_key, posts,
                   interpretation, timestamp, salt, used_indices, used_houses, drawn,
                   placement, hashed, available, chosen, seed, index, modulus>>

\* one spin of the wheel: Enter stops it on any hash of the cycle
run_interactive_spin ==
    /\ pc = "wheel"
    /\ script = "EngWheel"
    /\ IF i = count
       THEN /\ pc' = "done"
            /\ UNCHANGED <<heap, random_state, drawn, i>>
       ELSE IF heap["available_hashes"] = <<>>
       THEN /\ pc' = "StopIteration"
            /\ UNCHANGED <<heap, random_state, drawn, i>>
       ELSE \E k \in 1 .. Len(heap["available_hashes"]) :
              LET chosen_hash == heap["available_hashes"][k]
                  left == Remove(heap["available_hashes"], chosen_hash)
                  sh == shuffle(left, random_state, Len(left) - 1) IN
              /\ drawn' = Append(drawn, DictGet(interactive, chosen_hash))
              /\ heap' = [heap EXCEPT !["available_hashes"] = sh.list]
              /\ random_state' = sh.state
              /\ i' = i + 1
              /\ pc' = pc
    /\ UNCHANGED <<inputs, retry, rng, interactive, run, previous, files, stdout, stdin, spread, path_count, choices, api_key, posts,
                   interpretation, timestamp, oracle, salt, used_indices, used_houses,
                   placement, hashed, available, chosen, seed, index, modulus>>

Next ==
    \/ Enter
    \/ draw_cards
    \/ draw_runes
    \/ draw_words
    \/ reveal_sephirot_v2
    \/ reveal_sentences
    \/ reveal_sephirot
    \/ reveal_paths
    \/ generate_chart_planet
    \/ generate_chart_sign
    \/ generate_chart_house
    \/ Return
    \/ EnterTarot
    \/ TarotReader_draw_cards
    \/ EnterSephirot
    \/ get_sephirot_reading
    \/ get_sephirot_reading_state
    \/ EnterPaths
    \/ get_paths_reading
    \/ get_paths_reading_flow
    \/ EnterShuffle
    \/ shuffle_deck
    \/ DivinationMapper
    \/ EnterWheel
    \/ prepare_interactive_words
    \/ run_interactive_spin

Spec == Init /\ [][Next]_vars

\* ---------------------------------- the draw loops that keep their salt, run on
NoResaltInit == Init /\ script \in NoResaltScripts

NoResaltNext ==
    \/ Enter
    \/ draw_cards
    \/ draw_runes
    \/ draw_words
    \/ reveal_sephirot_v2
    \/ Return

\* the interpreter keeps executing the loop: a pass that can be taken is taken
FairSpec == NoResaltInit /\ [][NoResaltNext]_vars /\ WF_vars(NoResaltNext)

\* ------------------------------------------ reproducible calls, made twice
RepeatScripts == {"Geomancy", "multiv3", "multi", "KABBALAH2"}

\* n results of random.choice([1, 2]) from state s on
RECURSIVE random_choices(_, _)
random_choices(s, n) ==
    IF n = 0 THEN <<>> ELSE <<(<<1, 2>>)[randbelow(s, 2) + 1]>> \o random_choices(Advance(s), n - 1)

\* the state after n draws
RECURSIVE Advanced(_, _)
Advanced(s, n) == IF n = 0 THEN s ELSE Advanced(Advance(s), n - 1)

\* add_figures: line by line, (l1 + l2) % 2 + 1
add_figures(fig1, fig2) == [k \in 1 .. Len(fig1) |-> ((fig1[k] + fig2[k]) % 2) + 1]

\* figures[fig]: the entry of the figure table, numbered in the order of the table
figures(fig) == 1 + (fig[1] - 1) * 8 + (fig[2] - 1) * 4 + (fig[3] - 1) * 2 + (fig[4] - 1)

\* derive_daughters: daughter i takes line i of each mother
derive_daughters(mothers) == [d \in 1 .. 4 |-> [m \in 1 .. 4 |-> mothers[m][d]]]

\* generate_mothers: random.seed(hash_question(question)), then four figures of
\* four random.choice([1, 2]) each
generate_mothers ==
    /\ pc = "idle"
    /\ script = "Geomancy"
    /\ LET inp == HashInput(question, NoSalt, "") IN
       \E h \in hash_question(inp) :
         LET lines == random_choices(Seeded(h), 16) IN
         /\ oracle' = Memo(inp, h)
         /\ random_state' = Advanced(Seeded(h), 16)
         /\ drawn' = [m \in 1 .. 4 |-> SubSeq(lines, 4 * m - 3, 4 * m)]
    /\ pc' = "mothers"
    /\ UNCHANGED <<inputs, retry, rng, interactive, run, previous, files, stdout, stdin, spread, path_count, choices, api_key, posts,
                   interpretation, lists, timestamp, i, salt, used_indices, used_houses,
                   placement, hashed, index, modulus>>

\* the rest of generate_shield_chart: daughters, nieces, witnesses, judge
generate_shield_chart ==
    /\ pc = "mothers"
    /\ script = "Geomancy"
    /\ LET mothers == drawn
           daughters == derive_daughters(mothers)
           nieces == <<add_figures(mothers[1], mothers[2]), add_figures(mothers[3], mothers[4]),
                       add_figures(daughters[1], daughters[2]),
                       add_figures(daughters[3], daughters[4])>>
           witnesses == <<add_figures(nieces[1], nieces[2]), add_figures(nieces[3], nieces[4])>>
           judge == add_figures(witnesses[1], witnesses[2]) IN
       drawn' = [Mothers |-> [m \in 1 .. 4 |-> figures(mothers[m])],
                 Daughters |-> [d \in 1 .. 4 |-> figures(daughters[d])],
                 Nieces |-> [n \in 1 .. 4 |-> figures(nieces[n])],
                 RightWitness |-> figures(witnesses[1]),
                 LeftWitness |-> figures(witnesses[2]),
                 Judge |-> figures(judge)]
    /\ pc' = "done"
    /\ UNCHANGED <<env, lists, timestamp, oracle, i, salt, used_indices, used_houses,
                   placement, hashed, index, modulus>>

\* prepare_interactive_deck (multiv3), prepare_interactive_pool (KABBALAH2): the
\* seed, the generator and the shuffled index list
EnterPrepare ==
    /\ pc = "idle"
    /\ script \in {"multiv3", "multi", "KABBALAH2"}
    /\ prepare_interactive(script)
    /\ drawn' = <<>>
    /\ pc' = "prepare"
    /\ UNCHANGED <<inputs, retry, random_state, run, previous, files, stdout, stdin, spread, path_count, choices, api_key, posts,
                   interpretation, timestamp, salt, used_indices, used_houses,
                   placement, hashed, available, chosen, index, modulus>>

\* one pass of the loop over the shuffled indices, or `return interactive_deck`
prepare_interactive_deck ==
    /\ pc = "prepare"
    /\ script \in {"multiv3", "multi", "KABBALAH2"}
    /\ IF i < Len(heap["indices"])
       THEN /\ prepare_interactive_entry(script)
            /\ UNCHANGED <<drawn, pc>>
       ELSE /\ drawn' = interactive
            /\ pc' = "done"
            /\ UNCHANGED <<oracle, interactive, i>>
    /\ UNCHANGED <<inputs, retry, rng, random_state, run, previous, files, stdout, stdin, spread, path_count, choices, api_key, posts,
                   interpretation, timestamp, salt, used_indices, used_houses,
                   placement, hashed, heap, available, chosen, seed, index, modulus>>

\* the clock moves on
Tick ==
    /\ clock < MaxClock
    /\ pc = "done"
    /\ run = 1
    /\ clock' = clock + 1
    /\ UNCHANGED <<script, question, count, reversals_enabled, argv, retry, world, lists, pc,
                   timestamp, oracle, i, salt, used_indices, used_houses, drawn, placement,
                   hashed, index, modulus>>

\* the same call is made again, by another process: what the first returned is
\* kept aside, the generators and the locals are those of a fresh process
Again ==
    /\ pc = "done"
    /\ run = 1
    /\ run' = 2
    /\ previous' = drawn
    /\ UNCHANGED files
    /\ drawn' = <<>>
    /\ random_state' \in Entropy
    /\ rng' = 0
    /\ interactive' = <<>>
    /\ heap' = InitHeap
    /\ seed' = NoSeed
    /\ i' = 0
    /\ pc' = "idle"
    /\ UNCHANGED <<inputs, retry, stdout, stdin, spread, path_count, choices, api_key, posts, interpretation, available, chosen,
                   timestamp, oracle, salt, used_indices, used_houses, placement, hashed,
                   index, modulus>>

RepeatInit == InitFor(RepeatScripts) /\ count = 0 /\ pc = "idle" /\ api_key = "None"

RepeatNext ==
    \/ generate_mothers
    \/ generate_shield_chart
    \/ EnterPrepare
    \/ prepare_interactive_deck
    \/ Tick
    \/ Again

RepeatSpec == RepeatInit /\ [][RepeatNext]_vars

\* ------------------------------------------------ main: what the user types
SpreadChars == {"1", "3", "9", "0", "x", " "}
ChoiceChars == {"1", "0", "3", "4", "v", "a", "m", "x", " "}

\* the lines of at most MaxLine characters
Lines(chars) == UNION {[1 .. n -> chars] : n \in 0 .. MaxLine}

\* str.strip()
RECURSIVE lstrip(_)
lstrip(str) == IF str # <<>> /\ Head(str) = " " THEN lstrip(Tail(str)) ELSE str

RECURSIVE rstrip(_)
rstrip(str) ==
    IF str # <<>> /\ str[Len(str)] = " " THEN rstrip(SubSeq(str, 1, Len(str) - 1)) ELSE str

strip(str) == rstrip(lstrip(str))

\* str.upper()
upper(str) ==
    [k \in 1 .. Len(str) |->
       CASE str[k] = "v" -> "V" [] str[k] = "a" -> "A" [] str[k] = "m" -> "M"
         [] str[k] = "x" -> "X"
         [] OTHER -> str[k]]

Digits == {"0", "1", "3", "4", "9"}

DigitValue(c) == CASE c = "0" -> 0 [] c = "1" -> 1 [] c = "3" -> 3 [] c = "4" -> 4 [] c = "9" -> 9

\* whether int(str) returns (it raises ValueError otherwise)
IsInt(str) == strip(str) # <<>> /\ \A k \in 1 .. Len(strip(str)) : strip(str)[k] \in Digits

\* int(str), for a str of digits
RECURSIVE DecimalValue(_)
DecimalValue(str) ==
    IF str = <<>> THEN 0
    ELSE 10 * DecimalValue(SubSeq(str, 1, Len(str) - 1)) + DigitValue(str[Len(str)])

int(str) == DecimalValue(strip(str))

\* the line read by input(), with the prompt it answers
Typed(prompt, line) == [prompt |-> prompt, line |-> line, n |-> stdin.n + 1]

\* print(...)
Printed(kind, what) == Append(stdout, <<kind, what>>)

\* the spreads main offers
Spreads(s) ==
    CASE s = "NETarot" -> {1, 3, 10}
      [] s = "Lenormand" -> {1, 3, 9}
      [] s = "Runes" -> {1, 3}

\* a spread larger than the scaled table draws the whole scaled table
Scaled(n, size) == IF n > size THEN size ELSE n

SpreadScripts == {"NETarot", "Lenormand", "Runes"}
WordScripts == {"chinv3", "ponav2"}

\* the fallback left out: an input that is not offered leaves no spread
no_default(s) == 0

\* `spread = 1`, `word_count = 3`: what main falls back on
default_spread(s) == IF s \in WordScripts THEN 3 ELSE 1

\* what main leaves alone while it reads the spread
mainFrame == UNCHANGED <<script, question, clock, reversals_enabled, argv, retry, rng, random_state,
                         interactive, run, previous, files, path_count, choices, api_key, posts,
                         interpretation, lists, timestamp, oracle, i, salt, used_indices,
                         used_houses, drawn, placement, hashed, index, modulus>>

\* main of NETarot, Lenormand, Runes: the spread is read, 1 is the default
main_spread ==
    /\ pc = "main"
    /\ script \in SpreadScripts
    /\ \E line \in Lines(SpreadChars) :
         LET spread_choice == strip(line)
             parsed == IF spread_choice = <<>> THEN default_spread(script)
                       ELSE IF IsInt(spread_choice) THEN int(spread_choice)
                       ELSE default_spread(script)
             kept == IF parsed \in Spreads(script) THEN parsed ELSE default_spread(script) IN
         /\ stdin' = Typed("spread", line)
         /\ spread' = kept
         /\ count' = Scaled(kept, TableSize(script))
         /\ stdout' = IF parsed \in Spreads(script) THEN stdout
                      ELSE Printed("msg", "Invalid choice. Defaulting to 1.")
    /\ pc' = "idle"
    /\ mainFrame

\* main of chinv3, ponav2: the word count is read, 3 is the default
main_word_count ==
    /\ pc = "main"
    /\ script \in WordScripts
    /\ \E line \in Lines(SpreadChars) :
         LET word_count == IF IsInt(line) /\ 1 <= int(line) /\ int(line) <= 10
                           THEN int(line) ELSE default_spread(script) IN
         /\ stdin' = Typed("word_count", line)
         /\ spread' = word_count
         /\ count' = Scaled(word_count, TableSize(script))
    /\ pc' = "idle"
    /\ UNCHANGED stdout
    /\ mainFrame

\* main prints what was drawn, one line per item
main_print ==
    /\ pc = "done"
    /\ script \in SpreadScripts \cup WordScripts
    /\ stdout' = Printed("drawn", drawn)
    /\ pc' = IF script = "NETarot" THEN "exit" ELSE "interpret"
    /\ UNCHANGED <<inputs, retry, rng, random_state, interactive, run, previous, files, stdin, spread,
                   path_count, choices, api_key, posts, interpretation, lists, timestamp,
                   oracle, i, salt, used_indices, used_houses, drawn, placement, hashed,
                   index, modulus>>

\* ------------------------------------------------ the request to OpenRouter
\* JSON values, tagged with their Python type
JDict(keys, items) == [t |-> "dict", keys |-> keys, d |-> items, l |-> <<>>, s |-> ""]
JList(items) == [t |-> "list", keys |-> {}, d |-> <<>>, l |-> items, s |-> ""]
JStr(x) == [t |-> "str", keys |-> {}, d |-> <<>>, l |-> <<>>, s |-> x]
JNull == [t |-> "NoneType", keys |-> {}, d |-> <<>>, l |-> <<>>, s |-> ""]

\* an exception on its way up
Raised(e) == [t |-> "exception", keys |-> {}, d |-> <<>>, l |-> <<>>, s |-> e]

\* the bodies a response may carry
Bodies == {"", "<html>", "{}", "{choices: []}", "{choices: [{}]}",
           "{choices: [{message: {}}]}",
           "{choices: [{message: {content: text}}]}",
           "{choices: [{message: {content: null}}]}"}

\* what requests.post does: it raises, or returns a status and a body
Responses ==
    {[error |-> e, status |-> 0, body |-> ""] : e \in {"ConnectionError", "Timeout"}}
    \cup {[error |-> "", status |-> st, body |-> b] : st \in {200, 500}, b \in Bodies}

\* response.json()
json(body) ==
    CASE body = "{}" -> JDict({}, <<>>)
      [] body = "{choices: []}" -> JDict({"choices"}, [choices |-> JList(<<>>)])
      [] body = "{choices: [{}]}" -> JDict({"choices"}, [choices |-> JList(<<JDict({}, <<>>)>>)])
      [] body = "{choices: [{message: {}}]}" ->
           JDict({"choices"},
                 [choices |-> JList(<<JDict({"message"}, [message |-> JDict({}, <<>>)])>>)])
      [] body = "{choices: [{message: {content: text}}]}" ->
           JDict({"choices"},
                 [choices |-> JList(<<JDict({"message"},
                     [message |-> JDict({"content"}, [content |-> JStr("text")])])>>)])
      [] body = "{choices: [{message: {content: null}}]}" ->
           JDict({"choices"},
                 [choices |-> JList(<<JDict({"message"},
                     [message |-> JDict({"content"}, [content |-> JNull])])>>)])
      [] OTHER -> Raised("JSONDecodeError")

\* v.get(key, default)
get(v, key, default) ==
    IF v.t = "exception" THEN v
    ELSE IF v.t # "dict" THEN Raised("AttributeError")
    ELSE IF key \in v.keys THEN v.d[key]
    ELSE default

\* v[0]
first(v) ==
    IF v.t = "exception" THEN v
    ELSE IF v.t # "list" THEN Raised("TypeError")
    ELSE IF v.l = <<>> THEN Raised("IndexError")
    ELSE v.l[1]

\* result.get("choices", [{}])[0].get("message", {}).get("content", "No response from LLM.")
content(result) ==
    get(get(first(get(result, "choices", JList(<<JDict({}, <<>>)>>))),
            "message", JDict({}, <<>>)),
        "content", JStr("No response from LLM."))

\* the Python value of a JSON value
PyValue(v) == IF v.t = "str" THEN Str(v.s) ELSE IF v.t = "NoneType" THEN None
              ELSE [type |-> v.t, value |-> ""]

\* what the try block ends with: a returned value, or a raised exception
try_post(r) ==
    IF r.error # "" THEN Raised(r.error)
    ELSE IF r.status >= 400 THEN Raised("HTTPError")
    ELSE content(json(r.body))

\* the except clauses of interpret_reading, in order; interpret_revelation has
\* `except Exception` alone
Handlers(s) ==
    IF s = "KABBALAH2.interpret_revelation" THEN <<"Exception">>
    ELSE <<"HTTPError", "ConnectionError", "Exception">>

\* isinstance(e, cls): every exception raised here derives from Exception
IsInstance(e, cls) == cls = "Exception" \/ cls = e

\* the string the first matching except clause returns
Handled(s, e) ==
    LET k == CHOOSE k \in 1 .. Len(Handlers(s)) :
                 /\ IsInstance(e, Handlers(s)[k])
                 /\ \A j \in 1 .. k - 1 : ~IsInstance(e, Handlers(s)[j])
        cls == Handlers(s)[k] IN
    IF s = "KABBALAH2.interpret_revelation" THEN Str("Error")
    ELSE IF cls = "HTTPError" THEN Str("An HTTP error occurred with the OpenRouter API")
    ELSE IF cls = "ConnectionError" THEN Str("Unable to connect to OpenRouter")
    ELSE Str("An unexpected error occurred")

\* the test of the key left out: the request is sent whatever the key
key_never_missing == FALSE

\* `if not api_key`
api_key_missing == api_key \in {"None", ""}

InterpretScripts == {"Lenormand", "Runes", "chinv3", "ponav2", "KABBALAH2.interpret_revelation"}

\* interpret_reading / interpret_revelation: the key, the request, the answer
interpret_reading ==
    /\ pc = "interpret"
    /\ script \in InterpretScripts
    /\ IF api_key_missing
       THEN /\ interpretation' = Str("OPENROUTER_API_KEY environment variable not set.")
            /\ pc' = "returned"
            /\ UNCHANGED posts
       ELSE /\ posts' = posts + 1
            /\ \E r \in Responses :
                 LET out == try_post(r) IN
                 IF out.t # "exception"
                 THEN /\ interpretation' = PyValue(out)
                      /\ pc' = "returned"
                 ELSE IF \E k \in 1 .. Len(Handlers(script)) : IsInstance(out.s, Handlers(script)[k])
                 THEN /\ interpretation' = Handled(script, out.s)
                      /\ pc' = "returned"
                 ELSE /\ pc' = "raised"
                      /\ UNCHANGED interpretation
    /\ UNCHANGED <<inputs, retry, rng, random_state, interactive, run, previous, files, stdout, stdin,
                   spread, path_count, choices, api_key, lists, timestamp, oracle, i, salt,
                   used_indices, used_houses, drawn, placement, hashed, index, modulus>>

\* main prints the interpretation
main_print_interpretation ==
    /\ pc = "returned"
    /\ script \in InterpretScripts \ {"KABBALAH2.interpret_revelation"}
    /\ stdout' = Printed("interpretation", interpretation)
    /\ pc' = "exit"
    /\ UNCHANGED <<inputs, retry, rng, random_state, interactive, run, previous, files, stdin, spread,
                   path_count, choices, api_key, posts, interpretation, lists, timestamp,
                   oracle, i, salt, used_indices, used_houses, drawn, placement, hashed,
                   index, modulus>>

\* ------------------------------------------------ KABBALAH2: the revelation
\* worlds: the sephirot of each world
worlds(world_name) ==
    CASE world_name = "Archetypal" -> <<"Keter", "Chokmah", "Binah">>
      [] world_name = "Material" -> <<"Malkuth">>

\* main of KABBALAH2 from `revelation_choice = ...` to the hash pools: the
\* counts of the reading, or the message that ends the run
main_revelation_choice ==
    /\ pc = "main"
    /\ script = "KABBALAH2"
    /\ \E line \in Lines(ChoiceChars) :
         LET revelation_choice == upper(strip(line))
             inp == HashInput(question, PlainSalt("path-count-salt", 0), "") IN
         /\ stdin' = Typed("revelation", line)
         /\ CASE revelation_choice \in {<<"1">>, <<"3">>, <<"1", "0">>} ->
                   /\ count' = int(revelation_choice)
                   /\ path_count' = IF int(revelation_choice) = 10 THEN 5
                                    ELSE int(revelation_choice)
                   /\ pc' = "idle"
                   /\ UNCHANGED <<oracle, stdout>>
              [] revelation_choice = <<"V">> ->
                   /\ \E h \in hash_question(inp) :
                        /\ oracle' = Memo(inp, h)
                        /\ path_count' = (h % NUM_PATHS) + 1
                   /\ count' = 10
                   /\ pc' = "idle"
                   /\ UNCHANGED stdout
              [] revelation_choice \in {<<"A">>, <<"M">>} ->
                   LET world_name == IF revelation_choice = <<"A">> THEN "Archetypal"
                                     ELSE "Material" IN
                   /\ count' = Len(worlds(world_name))
                   /\ path_count' = Len(worlds(world_name))
                   /\ pc' = "idle"
                   /\ UNCHANGED <<oracle, stdout>>
              [] revelation_choice = <<"4">> ->
                   /\ count' = 10
                   /\ path_count' = 4
                   /\ pc' = "idle"
                   /\ UNCHANGED <<oracle, stdout>>
              [] OTHER ->
                   /\ stdout' = Printed("msg", "Invalid choice. Please run the script again.")
                   /\ pc' = "aborted"
                   /\ UNCHANGED <<oracle, count, path_count>>
    /\ UNCHANGED <<script, question, clock, reversals_enabled, argv, retry, rng, random_state,
                   interactive, run, previous, files, spread, choices, api_key, posts,
                   interpretation, lists, timestamp, i, salt, used_indices, used_houses,
                   drawn, placement, hashed, index, modulus>>

\* ------------------------------------------------ multiv3: run_interactive
\* the hash prefixes a user may type between commas; <<>> is a blank entry.
\* Prefixes are digits here, which strip() and lower() leave as they are.
Entries == {<<>>, <<7>>, <<1>>, <<7, 3>>}

ChoiceLines == UNION {[1 .. n -> Entries] : n \in 0 .. MaxChoices}

\* h.startswith(prefix)
startswith(h, prefix) == Len(prefix) <= Len(h) /\ SubSeq(h, 1, Len(prefix)) = prefix

\* [c.strip().lower() for c in choices_str.split(',') if c.strip()]
split_choices(line) == LET NotBlank(c) == c # <<>> IN SelectSeq(line, NotBlank)

\* [h for h in available_hashes if h.startswith(choice)]
matches(choice) ==
    LET Starts(h) == startswith(h, choice) IN SelectSeq(heap["available_hashes"], Starts)

interactiveFrame == UNCHANGED <<inputs, retry, rng, random_state, interactive, run, previous, files,
                                path_count, api_key, posts, interpretation, available, chosen,
                                seed, timestamp, oracle, salt, used_indices, used_houses,
                                placement, hashed, index, modulus>>

\* `available_hashes = list(interactive_deck.keys())` and one pass of the loop
\* that asks for the number of cards
run_interactive_num_cards ==
    /\ pc = "done"
    /\ script = "multiv3"
    /\ stdin.n < MaxPrompts
    /\ heap' = [heap EXCEPT !["available_hashes"] = Keys(interactive)]
    /\ \E line \in Lines(SpreadChars) :
         /\ stdin' = Typed("num_cards", line)
         /\ IF IsInt(line) /\ int(line) \in {1, 3, 10}
            THEN /\ spread' = int(line)
                 /\ pc' = "choose"
                 /\ UNCHANGED stdout
            ELSE /\ stdout' = Printed("msg", "Invalid input. Please enter 1, 3, or 10.")
                 /\ UNCHANGED <<spread, pc>>
    /\ UNCHANGED <<choices, drawn, i>>
    /\ interactiveFrame

\* one pass of the loop that asks for the hash prefixes
run_interactive_choices ==
    /\ pc = "choose"
    /\ stdin.n < MaxPrompts
    /\ \E line \in ChoiceLines :
         /\ stdin' = Typed("choices", line)
         /\ IF Len(split_choices(line)) = spread
            THEN /\ choices' = split_choices(line)
                 /\ drawn' = <<>>
                 /\ i' = 0
                 /\ pc' = "reveal"
                 /\ UNCHANGED stdout
            ELSE /\ stdout' = Printed("msg", "Please enter exactly num_cards hashes.")
                 /\ UNCHANGED <<choices, drawn, i, pc>>
    /\ UNCHANGED <<spread, heap>>
    /\ interactiveFrame

\* one pass of `for i, choice in enumerate(choices)`, or display_overview
run_interactive_reveal ==
    /\ pc = "reveal"
    /\ IF i < Len(choices)
       THEN LET found == matches(choices[i + 1]) IN
            CASE Len(found) = 1 ->
                   /\ drawn' = Append(drawn, DictGet(interactive, found[1]))
                   /\ heap' = [heap EXCEPT !["available_hashes"] = Remove(@, found[1])]
                   /\ stdout' = Printed("card", found[1])
                   /\ i' = i + 1
                   /\ UNCHANGED pc
              [] Len(found) > 1 ->
                   /\ stdout' = Printed("msg", "Ambiguous choice. Reading cannot continue.")
                   /\ pc' = "aborted"
                   /\ UNCHANGED <<drawn, heap, i>>
              [] OTHER ->
                   /\ stdout' = Printed("msg", "Invalid choice. Reading cannot continue.")
                   /\ pc' = "aborted"
                   /\ UNCHANGED <<drawn, heap, i>>
       ELSE /\ stdout' = Printed("overview", drawn)
            /\ pc' = "exit"
            /\ UNCHANGED <<drawn, heap, i>>
    /\ UNCHANGED <<stdin, spread, choices>>
    /\ interactiveFrame

\* ------------------------------------------------ the runs from the terminal
MainScripts == SpreadScripts \cup WordScripts
               \cup {"KABBALAH2", "multiv3", "KABBALAH2.interpret_revelation"}

\* where a run starts: at the spread prompt, at the deck, or in the function
StartPc(s) ==
    CASE s = "multiv3" -> "idle"
      [] s = "KABBALAH2.interpret_revelation" -> "interpret"
      [] OTHER -> "main"

\* os.getenv("OPENROUTER_API_KEY"): unset, empty, or a key; multiv3 is run
\* without --reversals
MainInit ==
    /\ InitFor(MainScripts)
    /\ ~reversals_enabled
    /\ count = 0
    /\ pc = StartPc(script)
    /\ api_key \in (IF script \in InterpretScripts THEN {"None", "", "sk-or-key"} ELSE {"None"})

MainNext ==
    \/ main_spread
    \/ main_word_count
    \/ Enter
    \/ draw_cards
    \/ draw_runes
    \/ draw_words
    \/ Return
    \/ main_print
    \/ interpret_reading
    \/ main_print_interpretation
    \/ main_revelation_choice
    \/ EnterPrepare
    \/ prepare_interactive_deck
    \/ run_interactive_num_cards
    \/ run_interactive_choices
    \/ run_interactive_reveal

MainSpec == MainInit /\ [][MainNext]_vars

\* ------------------------------------------------ I-CHING: the cast
\* `for i in range(6)`, scaled
NUM_LINES == MaxTable

\* d[0], the first byte of a derived key, reduced to bytes that give the four
\* line values
Bytes == {0, 1, 3, 7}

\* pbkdf2(seed, salt): a function of its input, like hash_question
pbkdf2(inp) == IF inp \in DOMAIN oracle THEN {oracle[inp]} ELSE Bytes

\* line_from_digest: 6 plus the heads among the three low bits
line_from_digest(b) == 6 + (b % 2) + ((b \div 2) % 2) + ((b \div 4) % 2)

\* cast_hexagram up to the loop: the seed is sha256 of the query and the time
EnterCast ==
    /\ pc = "idle"
    /\ script = "I-CHING"
    /\ timestamp' = clock
    /\ seed' = Seed(question, clock, -1)
    /\ i' = 0
    /\ drawn' = <<>>
    /\ pc' = "cast"
    /\ UNCHANGED <<env, heap, available, chosen, oracle, salt, used_indices, used_houses,
                   placement, hashed, index, modulus>>

\* one pass of `for i in range(6)`: the line of salt f"line-{i}", or the return
cast_hexagram ==
    /\ pc = "cast"
    /\ script = "I-CHING"
    /\ IF i < NUM_LINES
       THEN LET inp == SeedInput(seed, PlainSalt("line", i)) IN
            \E d \in pbkdf2(inp) :
              /\ oracle' = Memo(inp, d)
              /\ drawn' = Append(drawn, line_from_digest(d))
              /\ i' = i + 1
              /\ UNCHANGED pc
       ELSE /\ pc' = "done"
            /\ UNCHANGED <<oracle, drawn, i>>
    /\ UNCHANGED <<env, lists, timestamp, salt, used_indices, used_houses, placement,
                   hashed, index, modulus>>

\* ------------------------------------------------ the same call at two times
TimedScripts == {"KABBALAH5.get_sephirot_reading", "KABBALAH5.get_paths_reading",
                 "I-CHING", "Tableau"}

\* the counts asked for: one sephirah (-r 1), up to MaxSmall paths (-p), the
\* whole of the cast and of the deck
TimedCounts(s) ==
    CASE s = "KABBALAH5.get_sephirot_reading" -> {1}
      [] s = "KABBALAH5.get_paths_reading" -> 0 .. MaxSmall
      [] s = "I-CHING" -> {NUM_LINES}
      [] s = "Tableau" -> {DECK_SIZE}

TimedInit ==
    /\ InitFor(TimedScripts)
    /\ count \in TimedCounts(script)
    /\ pc = "idle"
    /\ api_key = "None"

\* the second call is made later than the first; the clock counts whole
\* seconds, so it reads the same unless a second went by (Tick)
TimedNext ==
    \/ EnterSephirot
    \/ get_sephirot_reading
    \/ get_sephirot_reading_state
    \/ EnterPaths
    \/ get_paths_reading
    \/ EnterCast
    \/ cast_hexagram
    \/ EnterShuffle
    \/ shuffle_deck
    \/ Tick
    \/ Again

TimedSpec == TimedInit /\ [][TimedNext]_vars

\* ------------------------------------------ KABBALAH5 / KABBALAH8: main
\* the values -p may carry: argparse accepts every int
PathArgs == {NoArgs} \cup {[NoArgs EXCEPT !.paths_given = TRUE, !.paths = p] :
                              p \in -1 .. NUM_PATHS + 1}

\* a test of -p that lets every number through
AnyCount(p) == TRUE

\* 0 <= path_count <= NUM_PATHS
InRange(p) == 0 <= p /\ p <= NUM_PATHS

\* main up to the call of get_paths_reading: the seed, the header, the sephirot
\* reading (whose Da'at message KABBALAH8 prints at once; the reading itself is
\* printed by the display below), then the number of paths
main_path_count ==
    /\ pc = "main"
    /\ script \in PathsReadings
    /\ \E e \in Entropy, a \in PathArgs :
         LET sd == MainSeed(script, e)
             dinp == SeedInput(sd, PlainSalt("daat", 0))
             cinp == SeedInput(sd, PlainSalt("path-count-salt", 0))
             header == Printed("header", question) IN
         /\ argv' = a
         /\ seed' = sd
         /\ \E hd \in hash_question(dinp), hc \in hash_question(cinp) :
              LET daat == script = "KABBALAH8.get_paths_reading" /\ DaatState(hd) # "None"
                  out == IF daat THEN Append(header, <<"msg", "Da'at">>) ELSE header IN
              IF a.paths_given
              THEN /\ path_count' = a.paths
                   /\ oracle' = IF script = "KABBALAH8.get_paths_reading"
                                THEN Memo(dinp, hd) ELSE oracle
                   /\ IF ~InRange(a.paths)
                      THEN /\ stdout' = Append(out, <<"msg", "Error: Path count must be between 0 and NUM_PATHS.">>)
                           /\ pc' = "rejected"
                           /\ count' = count
                      ELSE /\ stdout' = out
                           /\ pc' = "idle"
                           /\ count' = a.paths
              ELSE /\ path_count' = (hc % (NUM_PATHS \div 2)) + 1
                   /\ count' = (hc % (NUM_PATHS \div 2)) + 1
                   /\ oracle' = IF script = "KABBALAH8.get_paths_reading"
                                THEN (cinp :> hc) @@ Memo(dinp, hd)
                                ELSE (cinp :> hc) @@ oracle
                   /\ stdout' = out
                   /\ pc' = "idle"
    /\ timestamp' = clock
    /\ UNCHANGED <<script, question, clock, reversals_enabled, retry, rng, random_state,
                   interactive, run, previous, files, stdin, spread, choices, api_key,
                   posts, interpretation, heap, available, chosen, i, salt, used_indices,
                   used_houses, drawn, placement, hashed, index, modulus>>

\* main after get_paths_reading returned: the display of the results
main_display ==
    /\ pc = "done"
    /\ script \in PathsReadings
    /\ stdout' = IF drawn # <<>>
                 THEN Append(Printed("sephirot", <<>>), <<"paths", drawn>>)
                 ELSE Printed("sephirot", <<>>)
    /\ pc' = "exit"
    /\ UNCHANGED <<inputs, retry, rng, random_state, interactive, run, previous, files,
                   stdin, spread, path_count, choices, api_key, posts, interpretation,
                   lists, timestamp, oracle, i, salt, used_indices, used_houses, drawn,
                   placement, hashed, index, modulus>>

PathInit == InitFor(PathsReadings) /\ count = 0 /\ pc = "main" /\ api_key = "None"

PathNext ==
    \/ main_path_count
    \/ EnterPaths
    \/ get_paths_reading
    \/ get_paths_reading_flow
    \/ main_display

PathSpec == PathInit /\ [][PathNext]_vars

\* ------------------------------------------------ 2IngWheel: the word wheel
\* "unknown", which is not a word of WORD_LIST (1 .. DECK_SIZE)
Unknown == 0

\* a grid one number longer than the word list
GridBeyond == DECK_SIZE + 1

\* the 1004 of handle_number_input: WORD_LIST of 2IngWheel has 1004 entries
GridMax == DECK_SIZE

\* 0x9e3779b9, reduced to four bits
Golden == 9

\* a ^ b of two numbers below 2^n
RECURSIVE Xor(_, _, _)
Xor(a, b, n) ==
    IF n = 0 THEN 0
    ELSE 2 * Xor(a \div 2, b \div 2, n - 1) + (IF a % 2 = b % 2 THEN 0 ELSE 1)

\* (first ^ last) or 0x9e3779b9, of the first and last four bytes of the seed
MapperSeed(h) ==
    LET x == Xor((h \div 16) % 16, h % 16, 4) IN IF x = 0 THEN Golden ELSE x

\* what the user may type at the `>` prompt
WheelChars == {"1", "3", "4", "0", "x", " "}
clear == <<"c", "l", "e", "a", "r">>
restart == <<"r", "e", "s", "t", "a", "r", "t">>
WheelLines == Lines(WheelChars) \cup {clear, restart, <<"q">>}

\* str.isdigit()
isdigit(str) == str # <<>> /\ \A k \in 1 .. Len(str) : str[k] \in Digits

\* DivinationMapper.get_word of the mapper whose word_map is the list wm
get_word(wm, number) ==
    IF 1 <= number /\ number <= Len(wm) THEN wm[number] ELSE Unknown

\* prepare_session(question): the mapper is made for a question that is not empty
prepare_session(q, out) ==
    IF q = ""
    THEN /\ stdout' = Append(out, <<"msg", "Please enter a question to begin.">>)
         /\ available' = "none"
         /\ UNCHANGED <<seed, oracle, rng, heap, timestamp>>
    ELSE \E e \in Entropy :
           LET sd == Seed(q, clock, e)
               inp == SeedInput(sd, NoSalt) IN
           \E h \in hash_question(inp) :
             LET sh == shuffle(heap["WORD_LIST"], Seeded(MapperSeed(h)),
                               Len(heap["WORD_LIST"]) - 1) IN
             /\ seed' = sd
             /\ timestamp' = clock
             /\ oracle' = Memo(inp, h)
             /\ rng' = sh.state
             /\ heap' = [heap EXCEPT !["copy"] = sh.list]
             /\ available' = ListCopy("WORD_LIST")
             /\ stdout' = Append(out, <<"msg", "Session prepared! You can now select numbers.">>)

wheelFrame ==
    UNCHANGED <<script, count, clock, reversals_enabled, argv, retry, random_state,
                interactive, run, previous, files, spread, path_count, choices, api_key,
                posts, interpretation, chosen, i, salt, used_indices, used_houses,
                placement, hashed, index, modulus>>

\* EngWheelApp.run up to its loop
wheel_run ==
    /\ pc = "idle"
    /\ script = "2IngWheel"
    /\ \E q \in {"", "q1"} :
         /\ question' = q
         /\ stdin' = Typed("Enter your question", <<>>)
         /\ prepare_session(q, stdout)
         /\ pc' = IF q = "" THEN "exit" ELSE "loop"
    /\ UNCHANGED drawn
    /\ wheelFrame

\* handle_number_input(number_str)
handle_number_input(number_str) ==
    IF ~IsInt(number_str)
    THEN /\ stdout' = Printed("msg", "Please enter a valid number.")
         /\ UNCHANGED drawn
    ELSE IF ~(1 <= int(number_str) /\ int(number_str) <= GridMax)
    THEN /\ stdout' = Printed("msg", "Please enter a number between 1 and 1004.")
         /\ UNCHANGED drawn
    ELSE IF available = "none"
    THEN /\ stdout' = Printed("msg", "Please prepare a session first.")
         /\ UNCHANGED drawn
    ELSE LET word == get_word(heap[available], int(number_str)) IN
         /\ drawn' = Append(drawn, word)
         /\ stdout' = Printed("word", word)

\* one pass of the loop of EngWheelApp.run
wheel_loop ==
    /\ pc = "loop"
    /\ script = "2IngWheel"
    /\ stdin.n < MaxPrompts
    /\ \E line \in WheelLines :
         LET user_input == strip(line) IN
         /\ IF user_input = restart
            THEN \E q \in {"", "q1"} :
                   /\ question' = q
                   /\ stdin' = [Typed("Enter your question", <<>>) EXCEPT !.n = stdin.n + 2]
                   /\ prepare_session(q, stdout)
            ELSE /\ stdin' = Typed(">", line)
                 /\ UNCHANGED <<question, seed, oracle, rng, heap, timestamp, available>>
         /\ IF user_input = <<"q">>
            THEN /\ pc' = "exit"
                 /\ stdout' = Printed("msg", "Goodbye!")
                 /\ UNCHANGED drawn
            ELSE /\ pc' = "loop"
                 /\ IF user_input \in {clear, restart}
                    THEN /\ drawn' = <<>>
                         /\ user_input = clear => stdout' = Printed("msg", "Sentence cleared.")
                    ELSE IF isdigit(user_input)
                    THEN handle_number_input(user_input)
                    ELSE /\ stdout' = IF user_input # <<>>
                                      THEN Printed("msg", "Unknown command.")
                                      ELSE stdout
                         /\ UNCHANGED drawn
    /\ wheelFrame

WheelInit == InitFor({"2IngWheel"}) /\ count = 0 /\ pc = "idle" /\ api_key = "None"

WheelNext == wheel_run \/ wheel_loop

WheelSpec == WheelInit /\ [][WheelNext]_vars

\* ------------------------------------------------ I-CHING: main and --autosave
\* str.lower() that leaves every letter as it is
SameCase(str) == str

\* str.lower()
lower(str) ==
    [k \in 1 .. Len(str) |->
       CASE str[k] = "O" -> "o" [] str[k] = "J" -> "j" [] str[k] = "S" -> "s"
         [] str[k] = "N" -> "n" [] str[k] = "L" -> "l"
         [] OTHER -> str[k]]

\* str.endswith(suffix)
endswith(str, suffix) ==
    Len(suffix) <= Len(str) /\ SubSeq(str, Len(str) - Len(suffix) + 1, Len(str)) = suffix

\* the command lines of a run: no --autosave, or --autosave with one of the paths
SaveArgs == {NoArgs} \cup {[NoArgs EXCEPT !.autosave = p] : p \in Paths}

\* asdict(res) as json.dumps writes it: one line, whatever the reading
Payload == [ts |-> timestamp, lines |-> drawn]

\* main up to cast_hexagram: the arguments are parsed and the query is there
iching_main ==
    /\ pc = "args"
    /\ script = "I-CHING"
    /\ \E a \in SaveArgs : argv' = IF run = 1 THEN a ELSE argv
    /\ pc' = "idle"
    /\ UNCHANGED <<script, question, count, clock, reversals_enabled, retry, world, lists,
                   timestamp, oracle, i, salt, used_indices, used_houses, drawn, placement,
                   hashed, index, modulus>>

\* main after print_result: the reading is appended to a .jsonl file, written
\* over any other file, and a failure of open() is reported and passed over
autosave ==
    /\ pc = "done"
    /\ script = "I-CHING"
    /\ IF argv.autosave # <<>>
       THEN \E opened \in BOOLEAN :
              IF ~opened
              THEN /\ stdout' = Printed("warning", "failed to autosave")
                   /\ UNCHANGED files
              ELSE /\ files' = [files EXCEPT ![argv.autosave] =
                                   IF endswith(lower(argv.autosave), <<".", "j", "s", "o", "n", "l">>)
                                   THEN Append(@, Payload)
                                   ELSE <<Payload>>]
                   /\ UNCHANGED stdout
       ELSE UNCHANGED <<files, stdout>>
    /\ pc' = "saved"
    /\ UNCHANGED <<inputs, retry, rng, random_state, interactive, run, previous, stdin,
                   spread, path_count, choices, api_key, posts, interpretation, lists,
                   timestamp, oracle, i, salt, used_indices, used_houses, drawn, placement,
                   hashed, index, modulus>>

\* the script is run once more, with the same command line: the files and the
\* terminal are what the first run left
rerun ==
    /\ pc = "saved"
    /\ script = "I-CHING"
    /\ run = 1
    /\ run' = 2
    /\ previous' = drawn
    /\ drawn' = <<>>
    /\ seed' = NoSeed
    /\ i' = 0
    /\ pc' = "args"
    /\ UNCHANGED <<inputs, retry, rng, random_state, interactive, files, stdout, stdin,
                   spread, path_count, choices, api_key, posts, interpretation, heap,
                   available, chosen, timestamp, oracle, salt, used_indices, used_houses,
                   placement, hashed, index, modulus>>

SaveInit == InitFor({"I-CHING"}) /\ count = NUM_LINES /\ pc = "args" /\ api_key = "None"

SaveNext ==
    \/ iching_main
    \/ EnterCast
    \/ cast_hexagram
    \/ Tick
    \/ autosave
    \/ rerun

SaveSpec == SaveInit /\ [][SaveNext]_vars

\* ------------------------------------------------ KABBALAH2: get_user_choices
\* the shortest prefix get_user_choices takes (3 of 8 characters, scaled)
MinPrefix == 2

\* the keys a pool may have, and the lists main may pass as available_hashes:
\* list(pool.keys()), keys that differ from one another
HashKeys == {Key(d) : d \in Digest}
HashPools ==
    {p \in UNION {[1 .. n -> HashKeys] : n \in 1 .. MaxSmall} :
       \A a, b \in 1 .. Len(p) : a # b => p[a] # p[b]}

\* the choice at which `for choice in choices` breaks, or 0 when every choice
\* is long enough and matches one hash of available_hashes
FirstBad(chs, pool) ==
    LET Hits(c) == Len(SelectSeq(pool, LAMBDA h : startswith(h, c)))
        Bad == {k \in 1 .. Len(chs) : Len(chs[k]) < MinPrefix \/ Hits(chs[k]) # 1} IN
    IF Bad = {} THEN 0 ELSE CHOOSE k \in Bad : \A j \in Bad : k <= j

\* the call get_user_choices(available_hashes, num_choices, item_name), with
\* num_choices in count
EnterChoices ==
    /\ pc = "idle"
    /\ script = "KABBALAH2.get_user_choices"
    /\ \E p \in HashPools : heap' = [heap EXCEPT !["available_hashes"] = p]
    /\ drawn' = <<>>
    /\ pc' = "ask"
    /\ UNCHANGED <<stdin, stdout, choices, spread, i>>
    /\ interactiveFrame

\* one pass of `while len(chosen_hashes) < num_choices`, up to the return
get_user_choices ==
    /\ pc = "ask"
    /\ script = "KABBALAH2.get_user_choices"
    /\ stdin.n < MaxPrompts
    /\ \E line \in ChoiceLines :
         LET chs == split_choices(line)
             bad == FirstBad(chs, heap["available_hashes"])
             temp_chosen == [k \in 1 .. Len(chs) |-> matches(chs[k])[1]] IN
         /\ stdin' = Typed("choices", line)
         /\ IF Len(chs) # count
            THEN /\ stdout' = Printed("msg", "Please enter exactly num_choices hashes.")
                 /\ UNCHANGED <<choices, drawn, pc>>
            ELSE IF bad # 0
            THEN /\ stdout' = Printed("msg",
                       IF Len(chs[bad]) < MinPrefix THEN "Error: Hash prefix too short."
                       ELSE IF Len(matches(chs[bad])) > 1 THEN "Ambiguous choice."
                       ELSE "Invalid choice.")
                 /\ UNCHANGED <<choices, drawn, pc>>
            ELSE /\ choices' = chs
                 /\ drawn' = temp_chosen
                 /\ pc' = "done"
                 /\ UNCHANGED stdout
    /\ UNCHANGED <<spread, i, heap>>
    /\ interactiveFrame

ChoiceInit ==
    /\ InitFor({"KABBALAH2.get_user_choices"})
    /\ count \in 1 .. MaxChoices
    /\ pc = "idle"
    /\ api_key = "None"

ChoiceNext == EnterChoices \/ get_user_choices

ChoiceSpec == ChoiceInit /\ [][ChoiceNext]_vars

\* ------------------------------------------------ I-CHING: the hexagram table
\* `for i in range(6)`: the lines of a hexagram
HEX_LINES == 6

\* the glyphs of trigram_from_bits, by their names: Earth, Mountain, Water,
\* Wind, Thunder, Fire, Lake, Heaven
order == <<"Kun", "Gen", "Kan", "Xun", "Zhen", "Li", "Dui", "Qian">>

\* the items of the dict display HEX_META, in the order they are written:
\* (lower, upper) and the King Wen number
HexItems ==
  <<<<<<"Qian", "Qian">>, 1>>, <<<<"Kun", "Kun">>, 2>>, <<<<"Zhen", "Qian">>, 3>>,
     <<<<"Qian", "Kan">>, 4>>, <<<<"Kan", "Kun">>, 5>>, <<<<"Kun", "Li">>, 6>>,
     <<<<"Gen", "Kan">>, 7>>, <<<<"Kan", "Kun">>, 8>>, <<<<"Zhen", "Kun">>, 9>>,
     <<<<"Kun", "Xun">>, 10>>, <<<<"Kun", "Zhen">>, 11>>, <<<<"Li", "Qian">>, 12>>,
     <<<<"Zhen", "Kun">>, 13>>, <<<<"Kun", "Kan">>, 14>>, <<<<"Gen", "Kun">>, 15>>,
     <<<<"Kun", "Zhen">>, 16>>, <<<<"Dui", "Kun">>, 17>>, <<<<"Kun", "Zhen">>, 18>>,
     <<<<"Gen", "Dui">>, 19>>, <<<<"Li", "Kun">>, 20>>, <<<<"Kun", "Qian">>, 21>>,
     <<<<"Qian", "Kun">>, 22>>, <<<<"Zhen", "Kan">>, 23>>, <<<<"Kan", "Zhen">>, 24>>,
     <<<<"Xun", "Qian">>, 25>>, <<<<"Qian", "Zhen">>, 26>>, <<<<"Kun", "Gen">>, 27>>,
     <<<<"Gen", "Qian">>, 28>>, <<<<"Kan", "Li">>, 29>>, <<<<"Li", "Kan">>, 30>>,
     <<<<"Dui", "Zhen">>, 31>>, <<<<"Zhen", "Dui">>, 32>>, <<<<"Kun", "Dui">>, 33>>,
     <<<<"Dui", "Qian">>, 34>>, <<<<"Kun", "Gen">>, 35>>, <<<<"Gen", "Kun">>, 36>>,
     <<<<"Kun", "Li">>, 37>>, <<<<"Li", "Kun">>, 38>>, <<<<"Kun", "Qian">>, 39>>,
     <<<<"Qian", "Kun">>, 40>>, <<<<"Kun", "Xun">>, 41>>, <<<<"Xun", "Kun">>, 42>>,
     <<<<"Zhen", "Qian">>, 43>>, <<<<"Qian", "Dui">>, 44>>, <<<<"Dui", "Kun">>, 45>>,
     <<<<"Kun", "Zhen">>, 46>>, <<<<"Li", "Qian">>, 47>>, <<<<"Qian", "Li">>, 48>>,
     <<<<"Gen", "Gen">>, 49>>, <<<<"Xun", "Xun">>, 50>>, <<<<"Kan", "Kan">>, 51>>,
     <<<<"Gen", "Gen">>, 52>>, <<<<"Xun", "Xun">>, 53>>, <<<<"Dui", "Dui">>, 54>>,
     <<<<"Zhen", "Zhen">>, 55>>, <<<<"Li", "Li">>, 56>>, <<<<"Kan", "Xun">>, 57>>,
     <<<<"Xun", "Kan">>, 58>>, <<<<"Kan", "Gen">>, 59>>, <<<<"Gen", "Kan">>, 60>>,
     <<<<"Zhen", "Li">>, 61>>, <<<<"Li", "Zhen">>, 62>>, <<<<"Dui", "Li">>, 63>>,
     <<<<"Li", "Dui">>, 64>>>>

\* the dict a display evaluates to: a key keeps the place it was first written
\* at and has the value it was last written with
HEX_META ==
    LET n == Len(HexItems)
        IsFirst(k) == \A j \in 1 .. k - 1 : HexItems[j][1] # HexItems[k][1]
        firsts == SelectSeq([k \in 1 .. n |-> k], IsFirst)
        Last(key) == CHOOSE k \in 1 .. n :
                        /\ HexItems[k][1] = key
                        /\ \A j \in k + 1 .. n : HexItems[j][1] # key IN
    [m \in 1 .. Len(firsts) |->
       <<HexItems[firsts[m]][1], HexItems[Last(HexItems[firsts[m]][1])][2]>>]

\* key in dict
HasKey(dict, key) == \E k \in 1 .. Len(dict) : dict[k][1] = key

\* yin (0) for 6 or 8, yang (1) for 7 or 9
yin_yang_bit(line_val) == IF line_val \in {6, 8} THEN 0 ELSE 1

\* order[bits3[0] + (bits3[1] << 1) + (bits3[2] << 2)]
trigram_from_bits(bits3) == order[bits3[1] + 2 * bits3[2] + 4 * bits3[3] + 1]

\* hex_meta_from_bits: HEX_META.get(pair, (0, ...)) and the two trigrams
hex_meta_from_bits(bits6) ==
    LET lower_ == trigram_from_bits(SubSeq(bits6, 1, 3))
        upper_ == trigram_from_bits(SubSeq(bits6, 4, 6))
        pair == <<lower_, upper_>> IN
    [number |-> IF HasKey(HEX_META, pair) THEN DictGet(HEX_META, pair) ELSE 0,
     upper |-> upper_, lower |-> lower_]

\* six lines as the loop of cast_hexagram may cast them, and their bits
EnterHex ==
    /\ pc = "idle"
    /\ script = "I-CHING.hex_meta_from_bits"
    /\ \E lines \in [1 .. HEX_LINES -> 6 .. 9] :
         drawn' = [k \in 1 .. HEX_LINES |-> yin_yang_bit(lines[k])]
    /\ pc' = "meta"
    /\ UNCHANGED <<stdin, stdout, choices, spread, i, heap>>
    /\ interactiveFrame

\* primary_meta = hex_meta_from_bits(primary_bits), as print_result shows it
primary_meta ==
    /\ pc = "meta"
    /\ script = "I-CHING.hex_meta_from_bits"
    /\ stdout' = Printed("hexagram", hex_meta_from_bits(drawn))
    /\ pc' = "done"
    /\ UNCHANGED <<stdin, drawn, choices, spread, i, heap>>
    /\ interactiveFrame

HexInit ==
    /\ InitFor({"I-CHING.hex_meta_from_bits"})
    /\ count = HEX_LINES
    /\ pc = "idle"
    /\ api_key = "None"

HexNext == EnterHex \/ primary_meta

HexSpec == HexInit /\ [][HexNext]_vars

\* ------------------------------------------------ DIVINATION: get_valid_list
\* the calls main makes: the Tarot numbers, the moving lines, the runes
ListScripts == {"DIVINATION.user_tarot", "DIVINATION.iching_lines", "DIVINATION.user_runes"}

\* allowed_counts of each call; <<>> is None
allowed_counts(s) ==
    CASE s = "DIVINATION.user_tarot" -> <<1, 3, 10>>
      [] s = "DIVINATION.user_runes" -> <<1, 3>>
      [] OTHER -> <<>>

\* what the user may type between the commas, and the lines typed
NumberEntries == {<<>>, <<"1">>, <<"3">>, <<"9">>, <<"x">>}
NumberLines == UNION {[1 .. n -> NumberEntries] : n \in 0 .. MaxChoices}

\* min_val and max_val of the calls, scaled
min_val == 1
max_val == DECK_SIZE

\* the numbers in the order typed, each once: `if num not in seen`
RECURSIVE Unique(_)
Unique(nums) ==
    IF nums = <<>> THEN <<>>
    ELSE LET rest == Unique(SubSeq(nums, 1, Len(nums) - 1))
             num == nums[Len(nums)] IN
         IF \E k \in 1 .. Len(rest) : rest[k] = num THEN rest ELSE Append(rest, num)

\* the part at which the loop over parts stops (int raises, or the number is
\* out of range), or 0
FirstWrong(parts) ==
    LET Wrong == {k \in 1 .. Len(parts) :
                    ~IsInt(parts[k]) \/ ~(min_val <= int(parts[k]) /\ int(parts[k]) <= max_val)} IN
    IF Wrong = {} THEN 0 ELSE CHOOSE k \in Wrong : \A j \in Wrong : k <= j

\* one pass of `while True` of get_valid_list
get_valid_list ==
    /\ pc = "idle"
    /\ script \in ListScripts
    /\ stdin.n < MaxPrompts
    /\ \E line \in NumberLines :
         LET parts == split_choices(line)
             allowed == allowed_counts(script)
             wrong == FirstWrong(parts) IN
         /\ stdin' = Typed("numbers", line)
         /\ IF line \in {<<>>, << <<>> >>} /\ allowed = <<>>
            THEN /\ drawn' = <<>>
                 /\ pc' = "done"
                 /\ UNCHANGED stdout
            ELSE IF allowed # <<>> /\ ~(\E k \in 1 .. Len(allowed) : allowed[k] = Len(parts))
            THEN /\ stdout' = Printed("msg", "Error: Please provide exactly allowed_counts numbers.")
                 /\ UNCHANGED <<drawn, pc>>
            ELSE IF wrong # 0
            THEN /\ stdout' = Printed("msg", IF IsInt(parts[wrong])
                                             THEN "Error: Number is out of range."
                                             ELSE "Error: not a valid number.")
                 /\ UNCHANGED <<drawn, pc>>
            ELSE /\ drawn' = Unique([k \in 1 .. Len(parts) |-> int(parts[k])])
                 /\ pc' = "done"
                 /\ UNCHANGED stdout
    /\ UNCHANGED <<choices, spread, i, heap>>
    /\ interactiveFrame

ListInit == InitFor(ListScripts) /\ count = 0 /\ pc = "idle" /\ api_key = "None"

ListNext == get_valid_list

ListSpec == ListInit /\ [][ListNext]_vars

\* ------------------------------------------------ KABBALAH2: the worlds
\* sephirot_names, scaled to the sephirot of the two worlds above
sephirot_names == worlds("Archetypal") \o worlds("Material")

\* ['Normal', 'Deficient', 'Excessive'], scaled to two states
sephirot_states == <<"Normal", "Deficient">>

\* f"{name} - {state}", as the pieces it is made of
sephirot_with_states ==
    [k \in 1 .. Len(sephirot_names) * Len(sephirot_states) |->
       <<sephirot_names[((k - 1) \div Len(sephirot_states)) + 1], " - ",
         sephirot_states[((k - 1) % Len(sephirot_states)) + 1]>>]

\* selected_item.rsplit(' - ', 1): what stands before and after the last ' - '
rsplit(item) ==
    LET k == CHOOSE j \in 1 .. Len(item) :
                 item[j] = " - " /\ \A m \in j + 1 .. Len(item) : item[m] # " - " IN
    <<SubSeq(item, 1, k - 1), SubSeq(item, k + 1, Len(item))>>

\* the worlds of the menu, by the letter typed
world_map(c) == IF c = "A" THEN "Archetypal" ELSE "Material"

\* [s for s in sephirot_with_states if any(ws_name in s for ws_name in world_sephirot_names)]
world_pool_source(names) ==
    SelectSeq(sephirot_with_states,
              LAMBDA s : \E n \in 1 .. Len(names), j \in 1 .. Len(s) : s[j] = names[n])

\* sephirot_pool_source and sephirot_count of a horizontal reading
sephirot_pool_source(c) ==
    IF c = "4" THEN sephirot_with_states ELSE world_pool_source(worlds(world_map(c)))
sephirot_count(c) ==
    IF c = "4" THEN Len(sephirot_names) ELSE Len(worlds(world_map(c)))

\* the pools prepare_interactive_pool may return for a source: every item
\* under a hash prefix of its own (which prefix an item gets is up to the hash)
Pools(source) ==
    LET n == Len(source)
        key(k) == <<1 + (k \div 10), k % 10>> IN
    {[k \in 1 .. n |-> <<key(((k + r) % n) + 1), source[k]>>] : r \in 0 .. MaxSmall - 1}

\* the lines typed at the prompt for the hashes: sephirot_count hashes of the
\* pool, nothing at all, or prefixes that are too short
WorldLines(pool, n) ==
    [1 .. n -> {pool[k][1] : k \in 1 .. Len(pool)}] \cup {<<>>, [k \in 1 .. n |-> <<9>>]}

\* main from the menu to the pool of a horizontal reading (A, M or 4)
main_world_choice ==
    /\ pc = "main"
    /\ script = "KABBALAH2.worlds"
    /\ \E c \in {"A", "M", "4"} :
         /\ stdin' = Typed("revelation", <<c>>)
         /\ spread' = c
         /\ count' = sephirot_count(c)
         /\ \E pool \in Pools(sephirot_pool_source(c)) :
              /\ interactive' = pool
              /\ heap' = [heap EXCEPT !["available_hashes"] = Keys(pool)]
    /\ pc' = "ask"
    /\ UNCHANGED <<script, question, clock, reversals_enabled, argv, retry, rng, random_state,
                   run, previous, files, stdout, path_count, choices, api_key, posts,
                   interpretation, available, chosen, seed, timestamp, oracle, i, salt,
                   used_indices, used_houses, drawn, placement, hashed, index, modulus>>

\* one pass of the loop of get_user_choices(available_sephirot_hashes,
\* sephirot_count, "Sephirah"); when it returns, main splits every item chosen
\* into revealed_sephirot_with_states
choose_sephirot ==
    /\ pc = "ask"
    /\ script = "KABBALAH2.worlds"
    /\ stdin.n < MaxPrompts
    /\ \E line \in WorldLines(interactive, count) :
         LET chs == split_choices(line)
             bad == FirstBad(chs, heap["available_hashes"])
             chosen_hashes == [k \in 1 .. Len(chs) |-> matches(chs[k])[1]] IN
         /\ stdin' = Typed("choices", line)
         /\ IF Len(chs) # count
            THEN /\ stdout' = Printed("msg", "Please enter exactly num_choices hashes.")
                 /\ UNCHANGED <<choices, drawn, pc>>
            ELSE IF bad # 0
            THEN /\ stdout' = Printed("msg",
                       IF Len(chs[bad]) < MinPrefix THEN "Error: Hash prefix too short."
                       ELSE IF Len(matches(chs[bad])) > 1 THEN "Ambiguous choice."
                       ELSE "Invalid choice.")
                 /\ UNCHANGED <<choices, drawn, pc>>
            ELSE /\ choices' = chs
                 /\ drawn' = [k \in 1 .. Len(chs) |->
                                rsplit(DictGet(interactive, chosen_hashes[k]))]
                 /\ pc' = "done"
                 /\ UNCHANGED stdout
    /\ UNCHANGED <<spread, i, heap>>
    /\ interactiveFrame

WorldInit == InitFor({"KABBALAH2.worlds"}) /\ count = 0 /\ pc = "main" /\ api_key = "None"

WorldNext == main_world_choice \/ choose_sephirot

WorldSpec == WorldInit /\ [][WorldNext]_vars

\* ===================================================================== claims
\* the elements of a sequence are pairwise distinct
Distinct(seq) == \A a, b \in 1 .. Len(seq) : a # b => seq[a] # seq[b]

\* the k-th components of the entries of a result list
Column(seq, k) == [n \in 1 .. Len(seq) |-> seq[n][k]]

\* out holds each element of inp exactly once
Permutation(out, inp) ==
    /\ Len(out) = Len(inp)
    /\ \A a \in 1 .. Len(inp) : Cardinality({b \in 1 .. Len(out) : out[b] = inp[a]}) = 1

\* C1: for every question and count <= N the collision-avoidance loop of
\* draw_cards, draw_runes, draw_words and reveal_sephirot (MKabbalahv2)
\* terminates: a run that keeps executing reaches the return of the function.
C1_DrawLoopTerminates == <>(pc = "done")

C3_IndexInRange ==
    /\ pc \notin {"ZeroDivisionError", "IndexError"}
    /\ modulus # 0
    /\ 0 <= index
    /\ index < modulus
    /\ (script = "Tableau" /\ pc = "shuffle") => index <= i + 1
    /\ (script \in PopScripts /\ pc = "pop") => index <= Len(heap[available])

\* get_paths_reading drew every path: its last index was taken modulo 1
C3_Witness ==
    /\ script = "KABBALAH5.get_paths_reading"
    /\ pc = "done"
    /\ count = NUM_PATHS
    /\ Len(drawn) = NUM_PATHS
    /\ modulus = 1

\* C4: with no timestamp and no OS entropy mixed in, a second call with the
\* same question returns what the first returned: generate_shield_chart,
\* prepare_interactive_deck and prepare_interactive_pool, whatever the time
\* and the generator state of the second process.
C4_Reproducible == (run = 2 /\ pc = "done") => drawn = previous

\* prepare_interactive_deck returned a full dict twice, at different times
C4_Witness ==
    /\ script = "multiv3"
    /\ reversals_enabled
    /\ run = 2
    /\ pc = "done"
    /\ clock = MaxClock
    /\ Len(drawn) >= 2

\* C5: after a collision the loop changes its salt before the next attempt,
\* so the input an attempt is about to hash was not hashed by an earlier
\* failed attempt of the same draw (cio, MKabbalahv7, NETarot).
C5_ResaltBeforeRetry ==
    (script \in {"cio", "MKabbalahv7", "NETarot"} /\ pc = "loop" /\ i < count)
        => HashInput(question, salt, "") \notin hashed

\* C6: a shuffle yields a permutation of its input: shuffle_deck returns
\* each card exactly once, the four maps of DivinationMapper hold each of
\* their outcomes exactly once, and distinct positions map to distinct outcomes.
C6_ShufflePermutes ==
    /\ (script = "Tableau" /\ pc = "done") => Permutation(drawn, InitHeap["cards"])
    /\ (script = "DIVINATION" /\ pc = "done") =>
          /\ Permutation(heap["tarot_map"], tarot_master)
          /\ Permutation(heap["iching_map"], Range(NUM_HEXAGRAMS))
          /\ Permutation(heap["kabbalah_map"], Range(NUM_PATHS))
          /\ Permutation(heap["runes_map"], Range(NUM_RUNES))
          /\ \A m \in {"tarot_map", "iching_map", "kabbalah_map", "runes_map"} :
               \A a, b \in 1 .. Len(heap[m]) :
                 a # b => map_number(a, m) # map_number(b, m)

\* shuffle_deck returned the deck in another order
C6_Witness ==
    /\ script = "Tableau"
    /\ pc = "done"
    /\ drawn # InitHeap["cards"]
    /\ Len(drawn) = DECK_SIZE

\* C7: the module-level tables are never mutated: whatever was drawn,
\* shuffled or selected, each table holds the elements it was loaded with,
\* in the same order.
C7_TablesUnchanged == \A t \in Tables : heap[t] = InitHeap[t]

\* TarotReader.draw_cards popped every card of its copy
C7_Witness ==
    /\ script = "TAROT2"
    /\ pc = "done"
    /\ Len(drawn) = DECK_SIZE
    /\ heap[available] = <<>>

\* C8 (as stated): invalid user input never ends the reading: no run is ended
\* by what the user typed.
C8_InvalidInputNeverEnds == pc # "aborted"

\* the revelation choices main of KABBALAH2 accepts, among the lines typed here
RevelationChoices == {<<"1">>, <<"3">>, <<"1", "0">>, <<"V">>, <<"A">>, <<"M">>, <<"4">>}

\* C8 (amended): an invalid spread or word count falls back on the default (1,
\* or 3 words); an invalid number of cards or a wrong number of hash prefixes
\* in multiv3 is asked again; an invalid revelation choice in KABBALAH2 and a
\* hash prefix of multiv3 that matches no hash or several end the run with a
\* message, and nothing else ends a run.
C8_InvalidInputHandled ==
    /\ pc = "aborted" => script \in {"KABBALAH2", "multiv3"}
    /\ (script \in SpreadScripts /\ stdin.n > 0) =>
         /\ spread \in Spreads(script)
         /\ spread = IF IsInt(stdin.line) /\ int(stdin.line) \in Spreads(script)
                     THEN int(stdin.line) ELSE 1
    /\ (script \in WordScripts /\ stdin.n > 0) =>
         /\ spread \in 1 .. 10
         /\ spread = IF IsInt(stdin.line) /\ int(stdin.line) \in 1 .. 10
                     THEN int(stdin.line) ELSE 3
    /\ (script = "KABBALAH2" /\ stdin.prompt = "revelation") =>
         /\ pc = "aborted" <=> upper(strip(stdin.line)) \notin RevelationChoices
         /\ pc = "aborted" => stdout[Len(stdout)][2] = "Invalid choice. Please run the script again."
    /\ (script = "multiv3" /\ stdin.prompt = "num_cards"
          /\ ~(IsInt(stdin.line) /\ int(stdin.line) \in {1, 3, 10})) =>
         /\ pc = "done"
         /\ stdout[Len(stdout)][2] = "Invalid input. Please enter 1, 3, or 10."
    /\ (script = "multiv3" /\ stdin.prompt = "choices"
          /\ Len(split_choices(stdin.line)) # spread) => pc = "choose"
    /\ (script = "multiv3" /\ pc = "aborted") =>
         /\ stdin.prompt = "choices"
         /\ i < Len(choices)
         /\ Len(matches(choices[i + 1])) # 1

\* a multiv3 reading that revealed a card and was then ended by a prefix
C8_Witness == script = "multiv3" /\ pc = "aborted" /\ Len(drawn) >= 1 /\ spread = 3

\* the card draw k of Lenormand selects: the digest of the question and the
\* salt of draw k, modulo the deck
Selected(k) ==
    Item("cards", oracle[HashInput(question, MakeSalt("card", k - 1, timestamp), "")] % DECK_SIZE)

\* C9: with OPENROUTER_API_KEY unset (or empty) interpret_reading of Lenormand
\* returns the message and sends no request; whatever the key, the cards are
\* those the digests select and they are printed before the interpretation.
C9_MissingKeySkipsInterpretationOnly ==
    script = "Lenormand" =>
      /\ api_key \in {"None", ""} =>
           /\ posts = 0
           /\ pc \in {"returned", "exit"} =>
                interpretation = Str("OPENROUTER_API_KEY environment variable not set.")
      /\ pc \in {"interpret", "returned", "exit"} =>
           /\ Len(drawn) = count
           /\ \A k \in 1 .. Len(drawn) : drawn[k] = Selected(k)
           /\ \E k \in 1 .. Len(stdout) : stdout[k][1] = "drawn" /\ stdout[k][2] = drawn
      /\ pc = "exit" =>
           /\ stdout[Len(stdout)][1] = "interpretation"
           /\ stdout[Len(stdout)][2] = interpretation

\* a Lenormand run without a key that printed its cards and the message
C9_Witness ==
    /\ script = "Lenormand"
    /\ api_key = "None"
    /\ pc = "exit"
    /\ Len(drawn) >= 2
    /\ posts = 0

\* C10: interpret_reading / interpret_revelation never let an exception of the
\* HTTP call through, and once a request was sent they return a string.
C10_InterpretReturnsString ==
    /\ pc # "raised"
    /\ (pc \in {"returned", "exit"} /\ posts > 0) => interpretation.type = "str"

\* C11: results are repeatable for a given query: a second run of KABBALAH5
\* (same query, reading type and path count) or of I-CHING (same query)
\* returns what the first returned, whatever the times of the two runs.
C11_RepeatableForQuery ==
    (script \in TimedScripts \ {"Tableau"} /\ run = 2 /\ pc = "done") => drawn = previous

\* the salt of pass k of shuffle_deck at second ts
ShuffleInput(k, ts) == HashInput(question, MakeSalt("shuffle", k, ts), "")

C13_FullDeckOfHashes ==
    (script = "multi" /\ pc = "done") =>
      /\ Len(drawn) = Len(InitHeap["multiv3_cards"])
      /\ Distinct(Keys(drawn))
      /\ \A c \in 1 .. Len(InitHeap["multiv3_cards"]) :
           \E k \in 1 .. Len(drawn) : drawn[k][2].item = InitHeap["multiv3_cards"][c]

\* C14 (as stated): get_sephirot_reading(count) of KABBALAH5 and KABBALAH8
\* returns exactly count entries, all of them sephirot of the Tree.
C14_ExactlyCountSephirot ==
    (script \in SephirotReadings /\ pc = "done") =>
      /\ Len(drawn) = count
      /\ \A k \in 1 .. Len(drawn) : drawn[k][1] \in 1 .. MaxTree

\* the names of a reading, without the Da'at entry KABBALAH8 may put first
ChosenNames ==
    IF script = "KABBALAH8.get_sephirot_reading" /\ drawn # <<>> /\ drawn[1][1] = Daat
    THEN Tail(Column(drawn, 1))
    ELSE Column(drawn, 1)

\* C14 (amended): the reading names count distinct sephirot when count is less
\* than the size of the Tree and the whole Tree in order otherwise; KABBALAH5
\* returns nothing else, KABBALAH8 may put one Da'at entry before them.
C14_CountSephirotAfterDaat ==
    (script \in SephirotReadings /\ pc = "done") =>
      /\ script = "KABBALAH5.get_sephirot_reading" => Len(drawn) = count
      /\ Len(ChosenNames) = count
      /\ Distinct(ChosenNames)
      /\ \A k \in 1 .. Len(ChosenNames) : ChosenNames[k] \in 1 .. MaxTree
      /\ count = MaxTree => ChosenNames = InitHeap["sephirot_names"]

\* a KABBALAH8 reading of one sephirah that returned two entries
C14_Witness ==
    /\ script = "KABBALAH8.get_sephirot_reading"
    /\ pc = "done"
    /\ count = 1
    /\ Len(drawn) = 2
    /\ drawn[1][1] = Daat

\* the kinds of the lines main printed
Kinds == {stdout[k][1] : k \in 1 .. Len(stdout)}

C16_EveryNumberHasWord ==
    (script = "2IngWheel" /\ pc = "loop") =>
       LET words == {heap["WORD_LIST"][k] : k \in 1 .. Len(heap["WORD_LIST"])} IN
       /\ available # "none" =>
            \A n \in 1 .. GridMax :
               /\ get_word(heap[available], n) \in words
               /\ get_word(heap[available], n) # Unknown
       /\ \A k \in 1 .. Len(drawn) : drawn[k] \in words /\ drawn[k] # Unknown

C16_Witness ==
    /\ script = "2IngWheel"
    /\ pc = "loop"
    /\ available # "none"
    /\ stdin.prompt = ">"
    /\ IsInt(stdin.line)
    /\ int(stdin.line) = GridMax
    /\ drawn # <<>>
    /\ drawn[Len(drawn)] = get_word(heap[available], GridMax)
    /\ heap[available] # heap["WORD_LIST"]

\* the runs whose autosave failed
Warnings == Len(SelectSeq(stdout, LAMBDA e : e[1] = "warning"))

\* the paths --autosave did not name hold nothing
OthersUntouched == \A p \in Paths : p # argv.autosave => files[p] = <<>>

JsonlAnyCase == {<<"o", ".", "j", "s", "o", "n", "l">>, <<"O", ".", "J", "S", "O", "N", "L">>}

Revealed == Column(SelectSeq(stdout, LAMBDA e : e[1] = "card"), 2)

\* C18: no hash is chosen twice in one selection: not by run_interactive of
\* multiv3, and not by get_user_choices of KABBALAH2 (the same prefix typed
\* twice in one line)
C18_NoHashTwice ==
    /\ script = "multiv3" => Distinct(Revealed)
    /\ (script = "KABBALAH2.get_user_choices" /\ pc = "done") => Distinct(drawn)

\* C19: HEX_META knows every (lower, upper) pair of trigrams:
\* hex_meta_from_bits returns a King Wen number of 1 .. 64, never 0, for every
\* six bits
C19_EveryHexagramNumbered ==
    (script = "I-CHING.hex_meta_from_bits" /\ pc = "done") =>
       stdout[Len(stdout)][2].number \in 1 .. 64

\* C20: a list get_valid_list returns when it was given allowed_counts has a
\* length that is one of allowed_counts
C20_LengthAllowed ==
    (script \in ListScripts /\ allowed_counts(script) # <<>> /\ pc = "done") =>
       \E k \in 1 .. Len(allowed_counts(script)) : allowed_counts(script)[k] = Len(drawn)

\* the entries revealed for a sephirah
EntriesOf(name) == {k \in 1 .. Len(drawn) : drawn[k][1] = <<name>>}

\* C21: in a KABBALAH2 Four Worlds reading (4) the revealed entries are one
\* for each sephirah of the tree, and in a single-world reading (A, M) exactly
\* one for each sephirah of that world, whatever hashes the user picks
C21_OnePerSephirah ==
    (script = "KABBALAH2.worlds" /\ pc = "done") =>
       LET names == IF spread = "4" THEN sephirot_names ELSE worlds(world_map(spread)) IN
       /\ Len(drawn) = Len(names)
       /\ \A n \in 1 .. Len(names) : Cardinality(EntriesOf(names[n])) = 1

====
